---- MODULE Spec2Model ----
(***************************************************************************)
(* A model of the UI accessibility tree parser and the predicate resolver  *)
(* of ios_simulator_mcp (src/src/ios_simulator_mcp/ui_tree.py).            *)
(*                                                                         *)
(*   Spec        one caller at a time drives UITreeParser.parse over JSON   *)
(*               and XML hierarchy documents, one parse_element call per    *)
(*               step                                                       *)
(*   SpecThreads two callers share one UITreeParser instance and their      *)
(*               parse_element steps interleave                             *)
(*   SpecFind    find_element_by_predicate over a flat list of elements     *)
(***************************************************************************)
EXTENDS Integers, Sequences, FiniteSets, TLC

(***************************************************************************)
(* Bounds of the model.                                                    *)
(***************************************************************************)
\* largest number of nodes of a hierarchy over all node kinds (Spec)
MaxNodes == 2
\* largest number of nodes of a hierarchy over the core node kinds (Spec)
MaxCoreNodes == 4
\* largest number of nodes of a hierarchy parsed under SpecThreads
MaxThreadNodes == 1
\* largest length of the flat list handed to find_element_by_predicate
MaxElems == 3
\* the predicate's index ranges over -MaxIndex .. MaxIndex
MaxIndex == 3
\* largest number of filter keys a predicate carries
MaxFilters == 2
\* largest length of the flat list searched by text (SpecText)
MaxTextElems == 3
\* largest length of the flat list searched by region (SpecBounds)
MaxBoundsElems == 1
\* largest number of nodes of a hierarchy parsed under SpecVariants
MaxVariantNodes == 2
\* the index argument of the tap tool ranges over -1 .. MaxTapIndex
MaxTapIndex == 3
\* largest number of nodes of the hierarchies enumerated for SpecRender
MaxRenderNodes == 2
\* largest length of the flat list searched under SpecCenter
MaxCenterElems == 1
\* largest number of recording subprocesses spawned under SpecRecording
MaxProcesses == 2
\* largest number of sessions the WDA server creates under SpecSession
MaxSessions == 3
\* largest number of nodes of a hierarchy parsed under SpecGeometry
MaxGeometryNodes == 2
\* largest number of nodes of a hierarchy parsed under SpecDisplay
MaxDisplayNodes == 2

(***************************************************************************)
(* Python values.  None is a value distinct from every string of the       *)
(* model; a str is a TLA+ string.  An int or a bool that a JSON document   *)
(* carries where a str is expected is written apart from every str too.    *)
(***************************************************************************)
None == "<None>"

IntObj(n) == "<int " \o ToString(n) \o ">"

BoolObj(b) == IF b THEN "<bool True>" ELSE "<bool False>"

IsIntObj(v) == Len(v) > 6 /\ SubSeq(v, 1, 5) = "<int " /\ SubSeq(v, Len(v), Len(v)) = ">"

\* bool(v): None, "", 0 and False are falsy
Truthy(v) == v \notin {None, "", IntObj(0), BoolObj(FALSE)}

\* str(v)
str(v) ==
    IF v = None THEN "None"
    ELSE IF v = BoolObj(TRUE) THEN "True"
    ELSE IF v = BoolObj(FALSE) THEN "False"
    ELSE IF IsIntObj(v) THEN SubSeq(v, 6, Len(v) - 1)
    ELSE v

\* `a or b` over optional strs
PyOr(a, b) == IF Truthy(a) THEN a ELSE b

\* dict.get(key, default)
Get(d, key, default) == IF key \in DOMAIN d THEN d[key] ELSE default

\* str.lower() of one character
LowerChar(ch) ==
    CASE ch = "A" -> "a" [] ch = "B" -> "b" [] ch = "C" -> "c"
      [] ch = "D" -> "d" [] ch = "E" -> "e" [] ch = "F" -> "f"
      [] ch = "G" -> "g" [] ch = "H" -> "h" [] ch = "I" -> "i"
      [] ch = "J" -> "j" [] ch = "K" -> "k" [] ch = "L" -> "l"
      [] ch = "M" -> "m" [] ch = "N" -> "n" [] ch = "O" -> "o"
      [] ch = "P" -> "p" [] ch = "Q" -> "q" [] ch = "R" -> "r"
      [] ch = "S" -> "s" [] ch = "T" -> "t" [] ch = "U" -> "u"
      [] ch = "V" -> "v" [] ch = "W" -> "w" [] ch = "X" -> "x"
      [] ch = "Y" -> "y" [] ch = "Z" -> "z"
      [] OTHER -> ch

RECURSIVE Lower(_)
\* str.lower()
Lower(s) ==
    IF Len(s) = 0 THEN ""
    ELSE LowerChar(SubSeq(s, 1, 1)) \o Lower(SubSeq(s, 2, Len(s)))

\* str.startswith(prefix)
StartsWith(s, prefix) ==
    /\ Len(prefix) <= Len(s)
    /\ SubSeq(s, 1, Len(prefix)) = prefix

\* `sub in s` over strs
Contains(s, sub) ==
    \E i \in 1..(Len(s) - Len(sub) + 1) : SubSeq(s, i, i + Len(sub) - 1) = sub

(***************************************************************************)
(* Numbers on the wire.  A JSON number or an attribute string is one of    *)
(*   [t |-> "int",   v |-> n]        the int n                             *)
(*   [t |-> "float", tenths |-> n]   the float n/10                        *)
(*   [t |-> "str",   s |-> text]     the str text                          *)
(* and a conversion yields [ok |-> TRUE, v |-> n] or raises ValueError,    *)
(* [ok |-> FALSE].                                                         *)
(***************************************************************************)
IntVal(n) == [t |-> "int", v |-> n]
FloatVal(n) == [t |-> "float", tenths |-> n]
StrVal(text) == [t |-> "str", s |-> text]

Ok(n) == [ok |-> TRUE, v |-> n]
Raise == [ok |-> FALSE]

\* truncation toward zero of n/10
Trunc10(n) == IF n >= 0 THEN n \div 10 ELSE -((-n) \div 10)

\* float(text) in tenths, over the numeric texts of the model
FloatOfText(text) ==
    CASE text = "0" -> Ok(0)
      [] text = "10" -> Ok(100)
      [] text = "20" -> Ok(200)
      [] text = "100" -> Ok(1000)
      [] text = "50" -> Ok(500)
      [] text = "10.7" -> Ok(107)
      [] text = "-3.5" -> Ok(-35)
      [] OTHER -> Raise

\* int(text): only an integer literal is accepted
IntOfText(text) ==
    CASE text = "0" -> Ok(0)
      [] text = "10" -> Ok(10)
      [] text = "20" -> Ok(20)
      [] text = "100" -> Ok(100)
      [] text = "50" -> Ok(50)
      [] OTHER -> Raise

\* int(v), the conversion of _parse_json
PyInt(v) ==
    CASE v.t = "int" -> Ok(v.v)
      [] v.t = "float" -> Ok(Trunc10(v.tenths))
      [] v.t = "str" -> IntOfText(v.s)

\* int(float(v)), the conversion of _parse_xml
PyIntFloat(v) ==
    CASE v.t = "int" -> Ok(v.v)
      [] v.t = "float" -> Ok(Trunc10(v.tenths))
      [] v.t = "str" ->
            LET f == FloatOfText(v.s)
            IN  IF f.ok THEN Ok(Trunc10(f.v)) ELSE Raise

(***************************************************************************)
(* UIElement.  children holds references (object ids of the call's heap,    *)
(* from 1); NoneRef is the reference None.                                 *)
(***************************************************************************)
NoneRef == 0

UIElement(index, element_type, label, name, value, identifier, enabled, visible, accessible, x, y, width, height) ==
    [index |-> index, element_type |-> element_type, label |-> label,
     name |-> name, value |-> value, identifier |-> identifier,
     enabled |-> enabled, visible |-> visible, accessible |-> accessible,
     x |-> x, y |-> y, width |-> width, height |-> height,
     children |-> <<>>]

\* a mutant of center_x: the half of an odd width is rounded up
center_x_rounds_up(e) == e.x + ((e.width + 1) \div 2)

center_x(e) == e.x + (e.width \div 2)

center_y(e) == e.y + (e.height \div 2)

display_text(e) ==
    IF Truthy(e.label) THEN e.label
    ELSE IF Truthy(e.name) THEN e.name
    ELSE IF Truthy(e.value) THEN str(e.value)
    ELSE IF Truthy(e.identifier) THEN e.identifier
    ELSE ""

(***************************************************************************)
(* Hierarchy documents.  A node kind gives the visibility of one logical    *)
(* node and its two encodings: the JSON object without its children, and   *)
(* the XML element's tag and attributes.                                   *)
(***************************************************************************)
Rect(x, y, w, h) == [x |-> x, y |-> y, width |-> w, height |-> h]

KButton ==
    [visible |-> TRUE,
     json |-> [type |-> "Button", label |-> "OK", isEnabled |-> TRUE,
               isVisible |-> TRUE, isAccessible |-> TRUE,
               rect |-> Rect(IntVal(10), IntVal(20), IntVal(100), IntVal(50))],
     xml  |-> [tag |-> "XCUIElementTypeButton",
               attrib |-> [type |-> "Button", label |-> "OK",
                           enabled |-> "true", visible |-> "true",
                           accessible |-> "true",
                           x |-> StrVal("10"), y |-> StrVal("20"),
                           width |-> StrVal("100"), height |-> StrVal("50")]]]

KHidden ==
    [visible |-> FALSE,
     json |-> [type |-> "Button", label |-> "Back", isVisible |-> FALSE,
               rect |-> Rect(FloatVal(107), IntVal(0), IntVal(50), IntVal(20))],
     xml  |-> [tag |-> "XCUIElementTypeButton",
               attrib |-> [type |-> "Button", label |-> "Back",
                           visible |-> "false",
                           x |-> StrVal("10.7"), y |-> StrVal("0"),
                           width |-> StrVal("50"), height |-> StrVal("20")]]]

KDisabled ==
    [visible |-> TRUE,
     json |-> [type |-> "Switch", identifier |-> "sw", isEnabled |-> FALSE,
               rect |-> Rect(IntVal(0), FloatVal(-35), IntVal(20), IntVal(20))],
     xml  |-> [tag |-> "XCUIElementTypeSwitch",
               attrib |-> [type |-> "Switch", identifier |-> "sw",
                           enabled |-> "False",
                           x |-> StrVal("0"), y |-> StrVal("-3.5"),
                           width |-> StrVal("20"), height |-> StrVal("20")]]]

KInaccessible ==
    [visible |-> TRUE,
     json |-> [type |-> "TextField", value |-> "abc", isAccessible |-> FALSE],
     xml  |-> [tag |-> "XCUIElementTypeTextField",
               attrib |-> [type |-> "TextField", value |-> "abc",
                           accessible |-> "false"]]]

KPlain ==
    [visible |-> TRUE,
     json |-> [type |-> "Other", label |-> None, name |-> ""],
     xml  |-> [tag |-> "XCUIElementTypeOther",
               attrib |-> [type |-> "Other", name |-> ""]]]

KNamed ==
    [visible |-> TRUE,
     json |-> [type |-> "StaticText", name |-> "Title",
               rect |-> Rect(IntVal(0), IntVal(0), IntVal(100), IntVal(20))],
     xml  |-> [tag |-> "XCUIElementTypeStaticText",
               attrib |-> [type |-> "StaticText", name |-> "Title",
                           width |-> StrVal("100"), height |-> StrVal("20")]]]

\* a node whose geometry is not a number: the conversion raises ValueError
KBadRect ==
    [visible |-> TRUE,
     json |-> [type |-> "Button", label |-> "OK",
               rect |-> Rect(StrVal("abc"), IntVal(0), IntVal(0), IntVal(0))],
     xml  |-> [tag |-> "XCUIElementTypeButton",
               attrib |-> [type |-> "Button", label |-> "OK",
                           x |-> StrVal("abc")]]]

\* nodes that carry an attribute under both of its names, under the generic
\* name only, under the format's own name only, and under neither
KBothNames ==
    [visible |-> TRUE,
     json |-> [type |-> "Button", isEnabled |-> FALSE, enabled |-> TRUE,
               isVisible |-> TRUE, visible |-> FALSE,
               isAccessible |-> FALSE, accessible |-> TRUE],
     xml  |-> [tag |-> "XCUIElementTypeButton",
               attrib |-> [label |-> "Generic", accessibilityLabel |-> "Specific",
                           identifier |-> "gid",
                           accessibilityIdentifier |-> "sid"]]]

KGenericNames ==
    [visible |-> TRUE,
     json |-> [type |-> "Button", enabled |-> FALSE, visible |-> TRUE,
               accessible |-> FALSE],
     xml  |-> [tag |-> "XCUIElementTypeButton",
               attrib |-> [label |-> "Generic", identifier |-> "gid"]]]

KOwnNames ==
    [visible |-> TRUE,
     json |-> [type |-> "Button", isEnabled |-> FALSE, isVisible |-> TRUE,
               isAccessible |-> FALSE],
     xml  |-> [tag |-> "XCUIElementTypeButton",
               attrib |-> [accessibilityLabel |-> "Specific",
                           accessibilityIdentifier |-> "sid"]]]

KNoNames ==
    [visible |-> TRUE,
     json |-> [type |-> "Button"],
     xml  |-> [tag |-> "XCUIElementTypeButton", attrib |-> <<>>]]

\* a text field with no text of any sort
KEmptyField ==
    [visible |-> TRUE,
     json |-> [type |-> "TextField",
               rect |-> Rect(IntVal(20), IntVal(100), IntVal(100), IntVal(50))],
     xml  |-> [tag |-> "XCUIElementTypeTextField",
               attrib |-> [type |-> "TextField",
                           x |-> StrVal("20"), y |-> StrVal("100"),
                           width |-> StrVal("100"), height |-> StrVal("50")]]]

\* nodes whose first text is the value or the identifier; the value of a
\* slider and of a counter is a JSON number, and an XML attribute is a str
KValued ==
    [visible |-> TRUE,
     json |-> [type |-> "Slider", label |-> "", value |-> "50%",
               identifier |-> "volume"],
     xml  |-> [tag |-> "XCUIElementTypeSlider",
               attrib |-> [type |-> "Slider", label |-> "", value |-> "50%",
                           identifier |-> "volume"]]]

KIdentified ==
    [visible |-> TRUE,
     json |-> [type |-> "Button", name |-> "", value |-> "",
               identifier |-> "ok_btn"],
     xml  |-> [tag |-> "XCUIElementTypeButton",
               attrib |-> [type |-> "Button", name |-> "", value |-> "",
                           identifier |-> "ok_btn"]]]

KAllTexts ==
    [visible |-> TRUE,
     json |-> [type |-> "Cell", label |-> "Wi-Fi", name |-> "wifi_cell",
               value |-> "On", identifier |-> "wifi"],
     xml  |-> [tag |-> "XCUIElementTypeCell",
               attrib |-> [type |-> "Cell", label |-> "Wi-Fi", name |-> "wifi_cell",
                           value |-> "On", identifier |-> "wifi"]]]

KSliderAtZero ==
    [visible |-> TRUE,
     json |-> [type |-> "Slider", value |-> IntObj(0), identifier |-> "vol"],
     xml  |-> [tag |-> "XCUIElementTypeSlider",
               attrib |-> [type |-> "Slider", value |-> "0",
                           identifier |-> "vol"]]]

KCounter ==
    [visible |-> TRUE,
     json |-> [type |-> "Stepper", value |-> IntObj(5), identifier |-> "count"],
     xml  |-> [tag |-> "XCUIElementTypeStepper",
               attrib |-> [type |-> "Stepper", value |-> "5",
                           identifier |-> "count"]]]

KSwitchOff ==
    [visible |-> TRUE,
     json |-> [type |-> "Switch", value |-> BoolObj(FALSE), identifier |-> "dark"],
     xml  |-> [tag |-> "XCUIElementTypeSwitch",
               attrib |-> [type |-> "Switch", value |-> "false",
                           identifier |-> "dark"]]]

\* a node whose x is the text "10.7" in both encodings
KFloatText ==
    [visible |-> TRUE,
     json |-> [type |-> "Button", label |-> "OK",
               rect |-> Rect(StrVal("10.7"), IntVal(20), IntVal(100), IntVal(50))],
     xml  |-> [tag |-> "XCUIElementTypeButton",
               attrib |-> [type |-> "Button", label |-> "OK",
                           x |-> StrVal("10.7"), y |-> StrVal("20"),
                           width |-> StrVal("100"), height |-> StrVal("50")]]]

\* the node kinds by name
Kind(k) ==
    CASE k = "button" -> KButton
      [] k = "hidden" -> KHidden
      [] k = "disabled" -> KDisabled
      [] k = "inaccessible" -> KInaccessible
      [] k = "plain" -> KPlain
      [] k = "named" -> KNamed
      [] k = "badrect" -> KBadRect
      [] k = "both_names" -> KBothNames
      [] k = "generic_names" -> KGenericNames
      [] k = "own_names" -> KOwnNames
      [] k = "no_names" -> KNoNames
      [] k = "field" -> KEmptyField
      [] k = "valued" -> KValued
      [] k = "identified" -> KIdentified
      [] k = "all_texts" -> KAllTexts
      [] k = "slider_at_zero" -> KSliderAtZero
      [] k = "counter" -> KCounter
      [] k = "switch_off" -> KSwitchOff
      [] k = "float_text" -> KFloatText

NodeKinds ==
    {"button", "hidden", "disabled", "inaccessible", "plain", "named", "badrect"}

\* the kinds of the larger hierarchies: kept, pruned, raising
CoreNodeKinds == {"button", "hidden", "badrect"}

ThreadNodeKinds == {"button", "hidden", "plain"}

\* the kinds of the hierarchies of SpecVariants
VariantNodeKinds == {"both_names", "generic_names", "own_names", "no_names"}

\* the kinds of the hierarchies of SpecDisplay
DisplayNodeKinds ==
    {"button", "named", "field", "valued", "identified", "all_texts",
     "slider_at_zero", "counter", "switch_off"}

RECURSIVE Trees(_, _), Forests(_, _)
\* the hierarchies of exactly n nodes over the node kinds K; a node names
\* its kind
Trees(K, n) ==
    { [kind |-> k, children |-> f] : k \in K, f \in Forests(K, n - 1) }

\* the sequences of hierarchies of m nodes in total
Forests(K, m) ==
    IF m = 0 THEN { <<>> }
    ELSE UNION { { <<t>> \o f : t \in Trees(K, j), f \in Forests(K, m - j) }
                 : j \in 1..m }

Hierarchies ==
    UNION ({ Trees(NodeKinds, n) : n \in 1..MaxNodes }
             \cup { Trees(CoreNodeKinds, n) : n \in 1..MaxCoreNodes })

ThreadHierarchies == UNION { Trees(ThreadNodeKinds, n) : n \in 1..MaxThreadNodes }

\* the kinds of the hierarchies of SpecRender: with and without display text,
\* of a type the flat view always shows and of one it does not
RenderNodeKinds == {"button", "plain", "field", "named"}

\* five labelled buttons and three unlabelled elements of type Other
ExampleHierarchy ==
    LET leaf(k) == [kind |-> k, children |-> <<>>]
    IN  [kind |-> "button",
         children |-> <<leaf("button"), leaf("plain"), leaf("button"),
                        leaf("plain"), leaf("button"), leaf("plain"),
                        leaf("button")>>]

\* a root whose first child has a child of its own and a sibling after it
NestedHierarchy ==
    LET leaf(k) == [kind |-> k, children |-> <<>>]
    IN  [kind |-> "button",
         children |-> <<[kind |-> "named", children |-> <<leaf("field")>>],
                        leaf("plain")>>]

RenderHierarchies ==
    UNION { Trees(RenderNodeKinds, n) : n \in 1..MaxRenderNodes }
        \cup {ExampleHierarchy, NestedHierarchy}

VariantHierarchies ==
    UNION { Trees(VariantNodeKinds, n) : n \in 1..MaxVariantNodes }

\* the hierarchies of SpecGeometry
GeometryHierarchies ==
    UNION { Trees({"button", "hidden", "float_text"}, n) : n \in 1..MaxGeometryNodes }

DisplayHierarchies ==
    UNION { Trees(DisplayNodeKinds, n) : n \in 1..MaxDisplayNodes }

RECURSIVE JsonOf(_)
\* the JSON encoding: a dict; a leaf carries no "children" key
JsonOf(h) ==
    IF h.children = <<>> THEN Kind(h.kind).json
    ELSE Kind(h.kind).json @@
         [children |-> [i \in 1..Len(h.children) |-> JsonOf(h.children[i])]]

RECURSIVE XmlOf(_)
\* the XML encoding: the element tree that ET.fromstring yields
XmlOf(h) ==
    [tag |-> Kind(h.kind).xml.tag, attrib |-> Kind(h.kind).xml.attrib,
     children |-> [i \in 1..Len(h.children) |-> XmlOf(h.children[i])]]

\* a string that is not well-formed XML
MalformedXml == [malformed |-> TRUE]

\* the `source` argument of parse: a str (XML) or a dict (JSON)
StrSource(text) == [isstr |-> TRUE, text |-> text]
DictSource(data) == [isstr |-> FALSE, data |-> data]

\* what the device serves for the hierarchy h in a wire format
Formats == {"json", "xml", "malformed"}

SourceOf(h, format) ==
    CASE format = "json" -> DictSource(JsonOf(h))
      [] format = "xml" -> StrSource(XmlOf(h))
      [] format = "malformed" -> StrSource(MalformedXml)

(***************************************************************************)
(* parse_element up to the creation of the element.                        *)
(***************************************************************************)
non_interactive == {"Other", "StaticText", "Group", "Cell"}

\* _parse_json.parse_element, "Extract element properties" and "Get bounds"
JsonFields(elem_data) ==
    LET rect == Get(elem_data, "rect", <<>>)
    IN  [elem_type |-> Get(elem_data, "type", "Unknown"),
         label |-> Get(elem_data, "label", None),
         name |-> Get(elem_data, "name", None),
         value |-> Get(elem_data, "value", None),
         identifier |-> Get(elem_data, "identifier", None),
         enabled |-> Get(elem_data, "isEnabled", Get(elem_data, "enabled", TRUE)),
         visible |-> Get(elem_data, "isVisible", Get(elem_data, "visible", TRUE)),
         accessible |->
             Get(elem_data, "isAccessible", Get(elem_data, "accessible", TRUE)),
         x |-> PyInt(Get(rect, "x", IntVal(0))),
         y |-> PyInt(Get(rect, "y", IntVal(0))),
         width |-> PyInt(Get(rect, "width", IntVal(0))),
         height |-> PyInt(Get(rect, "height", IntVal(0)))]

\* _parse_xml.parse_element, "Extract attributes" and "Get bounds"
XmlFields(elem) ==
    LET a == elem.attrib
    IN  [elem_type |-> Get(a, "type", elem.tag),
         label |-> PyOr(Get(a, "label", None), Get(a, "accessibilityLabel", None)),
         name |-> Get(a, "name", None),
         value |-> Get(a, "value", None),
         identifier |-> PyOr(Get(a, "accessibilityIdentifier", None),
                             Get(a, "identifier", None)),
         enabled |-> Lower(Get(a, "enabled", "true")) = "true",
         visible |-> Lower(Get(a, "visible", "true")) = "true",
         accessible |-> Lower(Get(a, "accessible", "true")) = "true",
         x |-> PyIntFloat(Get(a, "x", IntVal(0))),
         y |-> PyIntFloat(Get(a, "y", IntVal(0))),
         width |-> PyIntFloat(Get(a, "width", IntVal(0))),
         height |-> PyIntFloat(Get(a, "height", IntVal(0)))]

\* a mutant of JsonSkip: the visibility filter is left out
JsonSkip_ignores_visibility(f, only_visible, only_interactable) ==
    \/ only_interactable /\ (~f.enabled \/ ~f.accessible)
    \/ only_interactable /\ f.elem_type \in non_interactive
          /\ ~Truthy(f.label) /\ ~Truthy(f.name)

\* _parse_json.parse_element, the filters: TRUE when the call returns None
JsonSkip(f, only_visible, only_interactable) ==
    \/ only_visible /\ ~f.visible
    \/ only_interactable /\ (~f.enabled \/ ~f.accessible)
    \/ only_interactable /\ f.elem_type \in non_interactive
          /\ ~Truthy(f.label) /\ ~Truthy(f.name)

\* _parse_xml.parse_element, the filters: TRUE when the call returns None
XmlSkip(f, only_visible, only_interactable) ==
    \/ only_visible /\ ~f.visible
    \/ only_interactable /\ (~f.enabled \/ ~f.accessible)

\* the conversions of the four geometry fields all succeeded
GeometryOk(f) == f.x.ok /\ f.y.ok /\ f.width.ok /\ f.height.ok

\* "Create element": UIElement(index=..., element_type=..., ...)
MakeElement(f, index) ==
    UIElement(index, f.elem_type, f.label, f.name, f.value, f.identifier,
              f.enabled, f.visible, f.accessible,
              f.x.v, f.y.v, f.width.v, f.height.v)

(***************************************************************************)
(* The outcome of one parse_element call before it recurses:               *)
(*   [do |-> "raise"]              an exception leaves parse               *)
(*   [do |-> "skip"]               return None                             *)
(*   [do |-> "keep", elem |-> e]   the UIElement created with `index`      *)
(***************************************************************************)
JsonElement(elem_data, only_visible, only_interactable, index) ==
    LET f == JsonFields(elem_data)
    IN  IF ~GeometryOk(f) THEN [do |-> "raise"]
        ELSE IF JsonSkip(f, only_visible, only_interactable) THEN [do |-> "skip"]
        ELSE [do |-> "keep", elem |-> MakeElement(f, index)]

XmlElement(elem, only_visible, only_interactable, index) ==
    LET f == XmlFields(elem)
    IN  IF ~GeometryOk(f) THEN [do |-> "raise"]
        ELSE IF XmlSkip(f, only_visible, only_interactable) THEN [do |-> "skip"]
        ELSE [do |-> "keep", elem |-> MakeElement(f, index)]

\* a mutant of JsonChildren: the children are iterated last to first
JsonChildren_reversed(elem_data) ==
    LET ch == Get(elem_data, "children", <<>>)
    IN  [i \in 1..Len(ch) |-> ch[Len(ch) + 1 - i]]

\* the children a parse_element call iterates over, in document order
JsonChildren(elem_data) == Get(elem_data, "children", <<>>)

XmlChildren(elem) == elem.children

(***************************************************************************)
(* State.                                                                  *)
(***************************************************************************)
Callers == {1, 2}

VARIABLES
    hierarchy,      \* the accessibility hierarchy on screen, served as JSON or XML
    index_counter,  \* UITreeParser._index_counter of the one parser instance
    pc,             \* per caller: "idle", "start", "walk", "done", "error"
    input,          \* per caller: the arguments of its parse call; the source
                    \* is the hierarchy as served in input[c].format
    stack,          \* per caller: the active parse_element calls, innermost last
    heap,           \* per caller: the UIElement objects of its call, by object id
    flat_list,      \* per caller: the local flat_list, as object ids
    origin,         \* per caller: for each object id, the path of its source node
    result,         \* per caller: what parse returned
    entry,          \* per caller: what its call found on entry: "fresh" (the
                    \* counter was 0), or a counter above 0 left by a call
                    \* that returned ("stale") or raised ("stale_error")
    elements,       \* find_element_by_predicate: the flat list argument
    predicate,      \* find_element_by_predicate: the predicate argument
    fpc,            \* find_element_by_predicate: "ready" or "returned"
    matches,        \* find_element_by_predicate: the local list of matches
    found,          \* find_element_by_predicate: the outcome
    output,         \* format_tree, format_flat_list: the last call, its
                    \* arguments (mode, verbose, elements) and the string it
                    \* returned (text)
    last_ui_elements,   \* server: the global dict _last_ui_elements
    call,           \* server: the last tool call, its arguments, its reply
                    \* and the taps it sent to the device
    latest_listing, \* per device: the element list that its most recent
                    \* get_ui_tree call produced (history)
    recording_processes,    \* SimulatorManager._recording_processes: udid -> process
    recording_paths,        \* server: the global dict _recording_paths
    processes,      \* the recording subprocesses spawned so far, by process id
    task,           \* per caller: its start_recording or stop_recording call
    session_id,     \* WDAClient.session_id of one client
    wda_sessions,   \* the sessions that exist on the WebDriverAgent server
    issued,         \* the number of sessions the server has created so far
    wtask,          \* per caller: its call on the client, its position and the
                    \* request it sent last
    devices_cache,  \* SimulatorManager._devices_cache: udid -> state
    cache_fresh,    \* time.time() - _cache_timestamp < _cache_ttl
    simctl,         \* the simulators that exist, as simctl reports them: udid -> state
    last_query,     \* what the most recent `simctl list devices` reported (history)
    sim_call,       \* the last call on the SimulatorManager and what it returned
    wda_clients,    \* server.wda_clients: key -> WDAClient
    client_sessions,\* per WDAClient created: its session_id is set
    bridged,        \* per device: the client its last start_bridge used (history)
    bridge_call     \* the last tool call that used a WDAClient, and the client

parser_vars ==
    <<index_counter, pc, input, stack, heap, flat_list, origin, result, entry>>

find_vars == <<elements, predicate, fpc, matches, found>>

render_vars == <<output>>

server_vars == <<last_ui_elements, call, latest_listing>>

rec_vars == <<recording_processes, recording_paths, processes, task>>

wda_vars == <<session_id, wda_sessions, issued, wtask>>

sim_vars == <<devices_cache, cache_fresh, simctl, last_query, sim_call>>

bridge_vars == <<wda_clients, client_sessions, bridged, bridge_call>>

manager_vars == <<rec_vars, wda_vars, sim_vars, bridge_vars>>

\* what the recording calls and the calls on the WDA client leave alone
not_rec_vars ==
    <<hierarchy, parser_vars, find_vars, render_vars, server_vars, wda_vars,
      sim_vars, bridge_vars>>

not_wda_vars ==
    <<hierarchy, parser_vars, find_vars, render_vars, server_vars, rec_vars,
      sim_vars, bridge_vars>>

not_sim_vars ==
    <<hierarchy, parser_vars, find_vars, render_vars, server_vars, rec_vars,
      wda_vars, bridge_vars>>

not_bridge_vars ==
    <<hierarchy, parser_vars, find_vars, render_vars, server_vars, rec_vars,
      wda_vars, sim_vars>>

vars == <<hierarchy, index_counter, pc, input, stack, heap, flat_list, origin, result, entry,
          elements, predicate, fpc, matches, found, output,
          last_ui_elements, call, latest_listing,
          recording_processes, recording_paths, processes, task,
          session_id, wda_sessions, issued, wtask,
          devices_cache, cache_fresh, simctl, last_query, sim_call,
          wda_clients, client_sessions, bridged, bridge_call>>

NoInput == [none |-> TRUE]
NoResult == [none |-> TRUE]
NoFound == [none |-> TRUE]
NoEntry == "fresh"

\* the parser after UITreeParser.__init__, no call in progress
ParserInit ==
    /\ index_counter = 0
    /\ pc = [c \in Callers |-> "idle"]
    /\ input = [c \in Callers |-> NoInput]
    /\ stack = [c \in Callers |-> <<>>]
    /\ heap = [c \in Callers |-> <<>>]
    /\ flat_list = [c \in Callers |-> <<>>]
    /\ origin = [c \in Callers |-> <<>>]
    /\ result = [c \in Callers |-> NoResult]
    /\ entry = [c \in Callers |-> NoEntry]

NoOutput == [none |-> TRUE]

\* nothing has been rendered
RenderIdle == output = NoOutput

Devices == {"iphone", "ipad"}

NoCall == [none |-> TRUE]

NoTask == [pc |-> "idle"]

\* no recording was started
RecordingIdle ==
    /\ recording_processes = <<>>
    /\ recording_paths = <<>>
    /\ processes = <<>>
    /\ task = [c \in Callers |-> NoTask]

\* the client after WDAClient.__init__; the server holds no session
WdaIdle ==
    /\ session_id = None
    /\ wda_sessions = {}
    /\ issued = 0
    /\ wtask = [c \in Callers |-> NoTask]

\* the SimulatorManager after __init__; no simulator exists
SimIdle ==
    /\ devices_cache = <<>>
    /\ cache_fresh = FALSE
    /\ simctl = <<>>
    /\ last_query = <<>>
    /\ sim_call = NoCall

\* the server module after import: no client was created
BridgeIdle ==
    /\ wda_clients = <<>>
    /\ client_sessions = <<>>
    /\ bridged = <<>>
    /\ bridge_call = NoCall

ManagerIdle == RecordingIdle /\ WdaIdle /\ SimIdle /\ BridgeIdle

\* the server's module state on import, no tool call made
ServerIdle ==
    /\ last_ui_elements = <<>>
    /\ call = NoCall
    /\ latest_listing = <<>>

\* no find_element_by_predicate call is made
FindIdle ==
    /\ elements = <<>>
    /\ predicate = <<>>
    /\ fpc = "idle"
    /\ matches = <<>>
    /\ found = NoFound

(***************************************************************************)
(* UITreeParser.parse                                                      *)
(***************************************************************************)
\* exceptions: ET.ParseError, and ValueError with its __cause__
ParseError == [type |-> "ParseError"]
NoCause == [type |-> "None"]
ValueError(cause) == [type |-> "ValueError", cause |-> cause]

\* what a parse call that raised leaves its caller with
Raised(exception) == [raised |-> exception]

\* ET.fromstring: raises ParseError on a malformed string
FromString(text) == IF text = MalformedXml THEN Raise ELSE [ok |-> TRUE, v |-> text]

\* a mutant of parse_dispatch: a malformed document yields (None, [])
parse_dispatch_swallows_error(c, format, only_visible, only_interactable) ==
    /\ pc[c] \in {"idle", "done", "error"}
    /\ entry' = [entry EXCEPT ![c] =
                    IF index_counter = 0 THEN "fresh"
                    ELSE IF pc[c] = "error" THEN "stale_error" ELSE "stale"]
    /\ input' = [input EXCEPT ![c] =
                    [format |-> format, only_visible |-> only_visible,
                     only_interactable |-> only_interactable]]
    /\ stack' = [stack EXCEPT ![c] = <<>>]
    /\ heap' = [heap EXCEPT ![c] = <<>>]
    /\ flat_list' = [flat_list EXCEPT ![c] = <<>>]
    /\ origin' = [origin EXCEPT ![c] = <<>>]
    /\ LET source == SourceOf(hierarchy, format)
       IN  IF source.isstr /\ ~FromString(source.text).ok
           THEN /\ pc' = [pc EXCEPT ![c] = "done"]
                /\ result' = [result EXCEPT ![c] =
                                 [root |-> NoneRef, flat_list |-> <<>>]]
           ELSE /\ pc' = [pc EXCEPT ![c] = "start"]
                /\ result' = [result EXCEPT ![c] = NoResult]
    /\ UNCHANGED <<hierarchy, find_vars, render_vars, server_vars, manager_vars>>

\* parse after the counter's reset, up to the first parse_element call:
\* the dispatch on the type of source, the fresh flat_list, ET.fromstring;
\* source is the hierarchy as served in `format`
parse_dispatch(c, format, only_visible, only_interactable) ==
    /\ pc[c] \in {"idle", "done", "error"}
    /\ entry' = [entry EXCEPT ![c] =
                    IF index_counter = 0 THEN "fresh"
                    ELSE IF pc[c] = "error" THEN "stale_error" ELSE "stale"]
    /\ input' = [input EXCEPT ![c] =
                    [format |-> format, only_visible |-> only_visible,
                     only_interactable |-> only_interactable]]
    /\ stack' = [stack EXCEPT ![c] = <<>>]
    /\ heap' = [heap EXCEPT ![c] = <<>>]
    /\ flat_list' = [flat_list EXCEPT ![c] = <<>>]
    /\ origin' = [origin EXCEPT ![c] = <<>>]
    /\ LET source == SourceOf(hierarchy, format)
       IN  IF source.isstr /\ ~FromString(source.text).ok
           THEN \* except ET.ParseError as e: raise ValueError(...) from e
                /\ pc' = [pc EXCEPT ![c] = "error"]
                /\ result' = [result EXCEPT ![c] = Raised(ValueError(ParseError))]
           ELSE /\ pc' = [pc EXCEPT ![c] = "start"]
                /\ result' = [result EXCEPT ![c] = NoResult]
    /\ UNCHANGED <<hierarchy, find_vars, render_vars, server_vars, manager_vars>>

\* a mutant of parse: the counter is not reset
parse_without_reset(c, format, only_visible, only_interactable) ==
    /\ UNCHANGED index_counter
    /\ parse_dispatch(c, format, only_visible, only_interactable)

\* parse(source, only_visible, only_interactable)
parse(c, format, only_visible, only_interactable) ==
    /\ index_counter' = 0
    /\ parse_dispatch(c, format, only_visible, only_interactable)

\* the source argument of the caller's parse call
Source(c) == SourceOf(hierarchy, input[c].format)

\* the document root handed to the first parse_element call
RootData(c) ==
    IF Source(c).isstr THEN FromString(Source(c).text).v ELSE Source(c).data

ChildrenOf(c, data) ==
    IF Source(c).isstr THEN XmlChildren(data) ELSE JsonChildren(data)

RECURSIVE Descend(_, _, _)
\* the document node reached from `data` along a path of child positions
Descend(c, data, path) ==
    IF path = <<>> THEN data
    ELSE Descend(c, ChildrenOf(c, data)[Head(path)], Tail(path))

\* the document node an active parse_element call works on
DataAt(c, path) == Descend(c, RootData(c), path)

\* a mutant of ElementOf: the counter is incremented before it is read
ElementOf_incremented_first(c, data) ==
    IF Source(c).isstr
    THEN XmlElement(data, input[c].only_visible, input[c].only_interactable,
                    index_counter + 1)
    ELSE JsonElement(data, input[c].only_visible, input[c].only_interactable,
                     index_counter + 1)

\* a mutant of ElementOf: a node that a filter removes is kept
ElementOf_keeps_filtered(c, data) ==
    LET f == IF Source(c).isstr THEN XmlFields(data) ELSE JsonFields(data)
    IN  IF ~GeometryOk(f) THEN [do |-> "raise"]
        ELSE [do |-> "keep", elem |-> MakeElement(f, index_counter)]

\* the outcome of parse_element on `data` with the counter as it stands
ElementOf(c, data) ==
    IF Source(c).isstr
    THEN XmlElement(data, input[c].only_visible, input[c].only_interactable,
                    index_counter)
    ELSE JsonElement(data, input[c].only_visible, input[c].only_interactable,
                     index_counter)

Top(c) == stack[c][Len(stack[c])]

\* one call of parse_element, on the root or on the next child of the
\* innermost active call: extract, filter, create the element with the
\* counter's value, increment the counter, append to flat_list
parse_element(c) ==
    /\ \/ pc[c] = "start"
       \/ pc[c] = "walk"
             /\ Top(c).next <= Len(ChildrenOf(c, DataAt(c, Top(c).path)))
    /\ LET atRoot == pc[c] = "start"
           path == IF atRoot THEN <<>> ELSE Append(Top(c).path, Top(c).next)
           data == DataAt(c, path)
           out == ElementOf(c, data)
           id == Len(heap[c]) + 1
       IN  CASE out.do = "raise" ->
                  /\ pc' = [pc EXCEPT ![c] = "error"]
                  /\ stack' = [stack EXCEPT ![c] = <<>>]
                  /\ heap' = [heap EXCEPT ![c] = <<>>]
                  /\ flat_list' = [flat_list EXCEPT ![c] = <<>>]
                  /\ origin' = [origin EXCEPT ![c] = <<>>]
                  /\ result' = [result EXCEPT ![c] = Raised(ValueError(NoCause))]
                  /\ UNCHANGED index_counter
             [] out.do = "skip" /\ atRoot ->
                  \* root = None; return root, flat_list
                  /\ pc' = [pc EXCEPT ![c] = "done"]
                  /\ result' = [result EXCEPT ![c] =
                                   [root |-> NoneRef, flat_list |-> flat_list[c]]]
                  /\ UNCHANGED <<index_counter, stack, heap, flat_list, origin>>
             [] out.do = "skip" /\ ~atRoot ->
                  /\ stack' = [stack EXCEPT ![c][Len(stack[c])].next = @ + 1]
                  /\ UNCHANGED <<index_counter, pc, heap, flat_list, origin,
                                 result>>
             [] out.do = "keep" ->
                  /\ heap' = [heap EXCEPT ![c] = Append(@, out.elem)]
                  /\ index_counter' = index_counter + 1
                  /\ flat_list' = [flat_list EXCEPT ![c] = Append(@, id)]
                  /\ origin' = [origin EXCEPT ![c] = Append(@, path)]
                  /\ stack' = [stack EXCEPT ![c] =
                                  Append(@, [path |-> path, elem |-> id,
                                             next |-> 1])]
                  /\ pc' = [pc EXCEPT ![c] = "walk"]
                  /\ UNCHANGED result
    /\ UNCHANGED <<hierarchy, input, entry, find_vars, render_vars, server_vars, manager_vars>>

\* the innermost parse_element call has iterated over all its children and
\* returns its element: the caller appends it to its element's children, or,
\* for the root, parse returns (root, flat_list)
parse_element_return(c) ==
    /\ pc[c] = "walk"
    /\ Top(c).next > Len(ChildrenOf(c, DataAt(c, Top(c).path)))
    /\ LET n == Len(stack[c])
           child == Top(c).elem
       IN  IF n = 1
           THEN /\ pc' = [pc EXCEPT ![c] = "done"]
                /\ stack' = [stack EXCEPT ![c] = <<>>]
                /\ result' = [result EXCEPT ![c] =
                                 [root |-> child, flat_list |-> flat_list[c]]]
                /\ UNCHANGED heap
           ELSE /\ heap' = [heap EXCEPT ![c][stack[c][n - 1].elem].children =
                                            Append(@, child)]
                /\ stack' = [stack EXCEPT ![c] =
                                [SubSeq(@, 1, n - 1) EXCEPT ![n - 1].next = @ + 1]]
                /\ UNCHANGED <<pc, result>>
    /\ UNCHANGED <<hierarchy, index_counter, input, flat_list, origin, entry,
                   find_vars, render_vars, server_vars, manager_vars>>

(***************************************************************************)
(* Spec: one caller, one parse call at a time.                             *)
(***************************************************************************)
Init ==
    /\ hierarchy \in Hierarchies
    /\ ParserInit
    /\ RenderIdle
    /\ ServerIdle
    /\ ManagerIdle
    /\ FindIdle

Next ==
    \/ \E format \in Formats, only_visible \in BOOLEAN,
          only_interactable \in BOOLEAN :
          parse(1, format, only_visible, only_interactable)
    \/ parse_element(1)
    \/ parse_element_return(1)

Spec == Init /\ [][Next]_vars

(***************************************************************************)
(* SpecThreads: two callers (threads) use the one parser instance.  A      *)
(* thread switch may fall between any two parse_element calls and between  *)
(* the counter's reset and the first of them; the interleavings inside one *)
(* parse_element call are left out.                                        *)
(***************************************************************************)
InitThreads ==
    /\ hierarchy \in ThreadHierarchies
    /\ ParserInit
    /\ RenderIdle
    /\ ServerIdle
    /\ ManagerIdle
    /\ FindIdle

NextThreads ==
    \E c \in Callers :
        \/ \E format \in Formats, only_visible \in BOOLEAN,
              only_interactable \in BOOLEAN :
              parse(c, format, only_visible, only_interactable)
        \/ parse_element(c)
        \/ parse_element_return(c)

SpecThreads == InitThreads /\ [][NextThreads]_vars

(***************************************************************************)
(* find_element_by_predicate                                               *)
(***************************************************************************)
\* a mutant of BoundsHintKeeps: top_half leaves out the middle line
BoundsHintKeeps_top_excludes_middle(bounds_hint, elem) ==
    CASE bounds_hint = "top_half" -> ~(center_y(elem) >= 422)
      [] bounds_hint = "bottom_half" -> ~(center_y(elem) <= 422)
      [] bounds_hint = "left_half" -> ~(center_x(elem) > 195)
      [] bounds_hint = "right_half" -> ~(center_x(elem) <= 195)
      [] bounds_hint = "center" ->
            (150 < center_x(elem) /\ center_x(elem) < 240
               /\ 300 < center_y(elem) /\ center_y(elem) < 544)
      [] OTHER -> TRUE

\* the bounds hint filter, lines 366-380: TRUE when the element is kept
BoundsHintKeeps(bounds_hint, elem) ==
    CASE bounds_hint = "top_half" -> ~(center_y(elem) > 422)
      [] bounds_hint = "bottom_half" -> ~(center_y(elem) <= 422)
      [] bounds_hint = "left_half" -> ~(center_x(elem) > 195)
      [] bounds_hint = "right_half" -> ~(center_x(elem) <= 195)
      [] bounds_hint = "center" ->
            (150 < center_x(elem) /\ center_x(elem) < 240
               /\ 300 < center_y(elem) /\ center_y(elem) < 544)
      [] OTHER -> TRUE

\* a mutant of Keeps: the filters are combined by OR instead of AND
Keeps_any_filter(elem, p) ==
    LET text == Get(p, "text", None)
        text_contains == Get(p, "text_contains", None)
        text_starts_with == Get(p, "text_starts_with", None)
        elem_type == Get(p, "type", None)
        label == Get(p, "label", None)
        identifier == Get(p, "identifier", None)
        bounds_hint == Get(p, "bounds_hint", None)
        elem_text == Lower(display_text(elem))
    IN  \/ ~(Truthy(elem_type) \/ Truthy(label) \/ Truthy(identifier)
               \/ Truthy(text) \/ Truthy(text_contains)
               \/ Truthy(text_starts_with) \/ Truthy(bounds_hint))
        \/ Truthy(elem_type) /\ Lower(elem.element_type) = Lower(elem_type)
        \/ Truthy(label) /\ elem.label = label
        \/ Truthy(identifier) /\ elem.identifier = identifier
        \/ Truthy(text) /\ display_text(elem) = text
        \/ Truthy(text_contains) /\ Contains(elem_text, Lower(text_contains))
        \/ Truthy(text_starts_with)
              /\ StartsWith(elem_text, Lower(text_starts_with))
        \/ Truthy(bounds_hint) /\ BoundsHintKeeps(bounds_hint, elem)

\* a mutant of Keeps: the `text` filter compares ignoring case
Keeps_text_ignores_case(elem, p) ==
    LET text == Get(p, "text", None)
        text_contains == Get(p, "text_contains", None)
        text_starts_with == Get(p, "text_starts_with", None)
        elem_type == Get(p, "type", None)
        label == Get(p, "label", None)
        identifier == Get(p, "identifier", None)
        bounds_hint == Get(p, "bounds_hint", None)
        elem_text == Lower(display_text(elem))
    IN  /\ ~(Truthy(elem_type) /\ Lower(elem.element_type) # Lower(elem_type))
        /\ ~(Truthy(label) /\ elem.label # label)
        /\ ~(Truthy(identifier) /\ elem.identifier # identifier)
        /\ ~(Truthy(text) /\ elem_text # Lower(text))
        /\ ~(Truthy(text_contains) /\ ~Contains(elem_text, Lower(text_contains)))
        /\ ~(Truthy(text_starts_with)
               /\ ~StartsWith(elem_text, Lower(text_starts_with)))
        /\ ~(Truthy(bounds_hint) /\ ~BoundsHintKeeps(bounds_hint, elem))

\* one turn of the loop, lines 337-382: TRUE when no `continue` is taken and
\* the element is appended to matches
Keeps(elem, p) ==
    LET text == Get(p, "text", None)
        text_contains == Get(p, "text_contains", None)
        text_starts_with == Get(p, "text_starts_with", None)
        elem_type == Get(p, "type", None)
        label == Get(p, "label", None)
        identifier == Get(p, "identifier", None)
        bounds_hint == Get(p, "bounds_hint", None)
        elem_text == Lower(display_text(elem))
    IN  /\ ~(Truthy(elem_type) /\ Lower(elem.element_type) # Lower(elem_type))
        /\ ~(Truthy(label) /\ elem.label # label)
        /\ ~(Truthy(identifier) /\ elem.identifier # identifier)
        /\ ~(Truthy(text) /\ display_text(elem) # text)
        /\ ~(Truthy(text_contains) /\ ~Contains(elem_text, Lower(text_contains)))
        /\ ~(Truthy(text_starts_with)
               /\ ~StartsWith(elem_text, Lower(text_starts_with)))
        /\ ~(Truthy(bounds_hint) /\ ~BoundsHintKeeps(bounds_hint, elem))

RECURSIVE Matches(_, _)
\* the list `matches` after the loop over elems
Matches(elems, p) ==
    IF elems = <<>> THEN <<>>
    ELSE LET rest == Matches(SubSeq(elems, 1, Len(elems) - 1), p)
             elem == elems[Len(elems)]
         IN  IF Keeps(elem, p) THEN Append(rest, elem) ELSE rest

\* matches[i] of a Python list: a negative i counts from the end, an i out
\* of range raises IndexError
PyItem(list, i) ==
    IF 0 <= i /\ i < Len(list) THEN [outcome |-> "element", elem |-> list[i + 1]]
    ELSE IF i < 0 /\ -i <= Len(list)
        THEN [outcome |-> "element", elem |-> list[Len(list) + i + 1]]
    ELSE [outcome |-> "raise"]

\* a mutant of Select: an index past the end selects nothing
Select_without_clamp(list, select_index) ==
    IF list = <<>> THEN [outcome |-> "none"]
    ELSE IF select_index >= Len(list) THEN [outcome |-> "none"]
    ELSE PyItem(list, select_index)

\* lines 384-390 over the list of matches: None, the last match, or
\* matches[select_index]
Select(list, select_index) ==
    IF list = <<>> THEN [outcome |-> "none"]
    ELSE IF select_index >= Len(list)
        THEN [outcome |-> "element", elem |-> list[Len(list)]]
    ELSE PyItem(list, select_index)

find_element_by_predicate ==
    /\ fpc = "ready"
    /\ matches' = Matches(elements, predicate)
    /\ found' = Select(matches', Get(predicate, "index", 0))
    /\ fpc' = "returned"
    /\ UNCHANGED <<hierarchy, parser_vars, elements, predicate, render_vars, server_vars, manager_vars>>

(***************************************************************************)
(* SpecFind: one find_element_by_predicate call on a flat list as parse    *)
(* returns it (the element at position i carries index i) and a predicate  *)
(* of at most MaxFilters filter keys, with or without an index.            *)
(***************************************************************************)
ElementsAt(index) ==
    { UIElement(index, "Button", "OK", None, None, None, TRUE, TRUE, TRUE,
                10, 20, 100, 50),
      UIElement(index, "Button", "OK", None, None, "ok2", TRUE, TRUE, TRUE,
                150, 400, 80, 40),
      UIElement(index, "Switch", None, "", None, "sw", TRUE, TRUE, TRUE,
                200, 500, 100, 100) }

FlatLists ==
    UNION { { l \in [1..n -> UNION { ElementsAt(i) : i \in 0..(n - 1) }] :
                \A i \in 1..n : l[i].index = i - 1 }
            : n \in 0..MaxElems }

FilterKeys ==
    {"type", "label", "identifier", "text", "text_contains", "text_starts_with",
     "bounds_hint"}

FilterValues(key) ==
    CASE key = "type" -> {"button", "Slider"}
      [] key = "label" -> {"OK"}
      [] key = "identifier" -> {"ok2"}
      [] key = "text" -> {"", "OK"}
      [] key = "text_contains" -> {"K"}
      [] key = "text_starts_with" -> {"S"}
      [] key = "bounds_hint" ->
            {"top_half", "bottom_half", "left_half", "right_half", "center"}

Filters ==
    UNION { { f \in [K -> UNION { FilterValues(k) : k \in K }] :
                \A k \in K : f[k] \in FilterValues(k) }
            : K \in { S \in SUBSET FilterKeys : Cardinality(S) <= MaxFilters } }

Predicates ==
    Filters \cup { f @@ [index |-> n] : f \in Filters, n \in (-MaxIndex)..MaxIndex }

InitFind ==
    /\ hierarchy = [kind |-> "button", children |-> <<>>]
    /\ ParserInit
    /\ RenderIdle
    /\ ServerIdle
    /\ ManagerIdle
    /\ elements \in FlatLists
    /\ predicate \in Predicates
    /\ fpc = "ready"
    /\ matches = <<>>
    /\ found = NoFound

NextFind == find_element_by_predicate

SpecFind == InitFind /\ [][NextFind]_vars

(***************************************************************************)
(* Reading a parse result.                                                 *)
(***************************************************************************)
Returned(c) == pc[c] = "done"

\* the element at position i (from 1) of the returned flat list
FlatElem(c, i) == heap[c][result[c].flat_list[i]]

RECURSIVE Preorder(_, _), PreorderAll(_, _)
\* the pre-order traversal of the returned tree below the object id
Preorder(c, id) == <<id>> \o PreorderAll(c, heap[c][id].children)

PreorderAll(c, ids) ==
    IF ids = <<>> THEN <<>>
    ELSE Preorder(c, Head(ids)) \o PreorderAll(c, Tail(ids))

RECURSIVE NodeAt(_, _)
\* the node of the hierarchy h at a path of child positions
NodeAt(h, path) ==
    IF path = <<>> THEN h ELSE NodeAt(h.children[Head(path)], Tail(path))

\* the element e was made from a node of kind k
MadeFrom(e, k) ==
    LET f == JsonFields(Kind(k).json)
    IN  /\ e.element_type = f.elem_type
        /\ display_text(e) = display_text(MakeElement(f, 0))

\* the object ids a parse result hands out, through the tree or the list
ResultIds(c) ==
    { result[c].flat_list[i] : i \in 1..Len(result[c].flat_list) }
        \cup (IF result[c].root = NoneRef THEN {}
              ELSE LET t == Preorder(c, result[c].root)
                   IN  { t[i] : i \in 1..Len(t) })

(***************************************************************************)
(* C1  Index contiguity: when parse returns a flat list of N elements, the *)
(* element at position i carries index i, for i = 0..N-1, whatever the     *)
(* format and the filters; a node removed by a filter consumes no index.   *)
(***************************************************************************)
IndexContiguity ==
    \A c \in Callers :
        Returned(c) =>
            \A i \in 1..Len(result[c].flat_list) : FlatElem(c, i).index = i - 1

\* a parse returned two elements or more, the root and its second child
\* next to each other: the first child was removed by a filter
IndexContiguityWitness ==
    \E c \in Callers :
        /\ Returned(c)
        /\ Len(result[c].flat_list) >= 2
        /\ origin[c][result[c].flat_list[2]] = <<2>>

(***************************************************************************)
(* C2  The flat list is the pre-order traversal of the returned tree: the  *)
(* root first, each node before its subtree, each subtree a contiguous     *)
(* block, no node missing, extra or repeated; the children of an element   *)
(* are elements made from children of its source node, in document order.  *)
(***************************************************************************)
FlatListIsPreorder ==
    \A c \in Callers :
        (Returned(c) /\ result[c].root # NoneRef) =>
            /\ Preorder(c, result[c].root) = result[c].flat_list
            /\ origin[c][result[c].root] = <<>>
            /\ \A id \in 1..Len(heap[c]) :
                  /\ MadeFrom(heap[c][id], NodeAt(hierarchy, origin[c][id]).kind)
                  /\ LET ch == heap[c][id].children
                     IN  \A k \in 1..Len(ch) :
                            /\ Len(origin[c][ch[k]]) = Len(origin[c][id]) + 1
                            /\ SubSeq(origin[c][ch[k]], 1, Len(origin[c][id]))
                                  = origin[c][id]
                            /\ k > 1 =>
                                  origin[c][ch[k - 1]][Len(origin[c][id]) + 1]
                                    < origin[c][ch[k]][Len(origin[c][id]) + 1]

\* a returned tree of four elements: the root's first child has a child of its
\* own and is followed by a sibling
FlatListIsPreorderWitness ==
    \E c \in Callers :
        /\ Returned(c)
        /\ result[c].root = 1
        /\ Len(result[c].flat_list) = 4
        /\ heap[c][1].children = <<2, 4>>
        /\ heap[c][2].children = <<3>>

(***************************************************************************)
(* C3  With only_visible, a node whose visibility flag is false is absent  *)
(* from the tree and from the flat list, and so is each of its             *)
(* descendants, visible or not: every element handed out was made from a   *)
(* visible node all of whose ancestors are visible.                        *)
(***************************************************************************)
VisibilityPruning ==
    \A c \in Callers :
        (Returned(c) /\ input[c].only_visible) =>
            \A id \in ResultIds(c) :
                \A k \in 0..Len(origin[c][id]) :
                    Kind(NodeAt(hierarchy, SubSeq(origin[c][id], 1, k)).kind).visible

\* a parse with only_visible returned the root of a hierarchy whose first
\* child is invisible and has a visible child
VisibilityPruningWitness ==
    \E c \in Callers :
        /\ Returned(c)
        /\ input[c].only_visible
        /\ result[c].root # NoneRef
        /\ hierarchy.children # <<>>
        /\ ~Kind(hierarchy.children[1].kind).visible
        /\ hierarchy.children[1].children # <<>>
        /\ Kind(hierarchy.children[1].children[1].kind).visible

(***************************************************************************)
(* C4  With only_interactable, in either format, the flat list holds no    *)
(* disabled element, no non-accessible element, and no element of type     *)
(* Other, StaticText, Group or Cell that has neither a label nor a name.   *)
(***************************************************************************)
InteractableOnly ==
    \A c \in Callers :
        (Returned(c) /\ input[c].only_interactable) =>
            \A i \in 1..Len(result[c].flat_list) :
                LET e == FlatElem(c, i)
                IN  /\ e.enabled
                    /\ e.accessible
                    /\ ~(e.element_type \in {"Other", "StaticText", "Group", "Cell"}
                           /\ ~Truthy(e.label) /\ ~Truthy(e.name))

(***************************************************************************)
(* C5  Format equivalence: parsing the JSON encoding and the XML encoding  *)
(* of one hierarchy with the same only_visible and only_interactable       *)
(* yields flat lists of equal length that agree, position by position, on  *)
(* display_text, element_type and bounds.                                  *)
(***************************************************************************)
FormatEquivalence ==
    \A cj \in Callers, cx \in Callers :
        ( /\ Returned(cj) /\ input[cj].format = "json"
          /\ Returned(cx) /\ input[cx].format = "xml"
          /\ input[cj].only_visible = input[cx].only_visible
          /\ input[cj].only_interactable = input[cx].only_interactable ) =>
            /\ Len(result[cj].flat_list) = Len(result[cx].flat_list)
            /\ \A i \in 1..Len(result[cj].flat_list) :
                  LET ej == FlatElem(cj, i)
                      ex == FlatElem(cx, i)
                  IN  /\ display_text(ej) = display_text(ex)
                      /\ ej.element_type = ex.element_type
                      /\ <<ej.x, ej.y, ej.width, ej.height>>
                            = <<ex.x, ex.y, ex.width, ex.height>>

(***************************************************************************)
(* C6  When two parse calls on one parser run concurrently, each of them   *)
(* still returns a flat list whose indices are 0..N-1 in list order.       *)
(***************************************************************************)
ConcurrentCallsContiguous ==
    \A c \in Callers :
        Returned(c) =>
            [i \in 1..Len(result[c].flat_list) |-> FlatElem(c, i).index]
                = [i \in 1..Len(result[c].flat_list) |-> i - 1]

(***************************************************************************)
(* C7  A parse that returns gives index 0 to its first kept element and    *)
(* N-1 to its last, also when the call before it on the same parser left   *)
(* the counter above 0, by returning or by raising part-way through a      *)
(* document.                                                               *)
(***************************************************************************)
NoCounterLeak ==
    \A c \in Callers :
        (Returned(c) /\ entry[c] # "fresh" /\ result[c].flat_list # <<>>) =>
            /\ FlatElem(c, 1).index = 0
            /\ FlatElem(c, Len(result[c].flat_list)).index
                  = Len(result[c].flat_list) - 1

\* a parse returned elements after the call before it raised part-way and
\* left the counter above 0
NoCounterLeakWitness ==
    \E c \in Callers :
        /\ Returned(c)
        /\ entry[c] = "stale_error"
        /\ result[c].flat_list # <<>>

(***************************************************************************)
(* Reading a find_element_by_predicate call.                               *)
(***************************************************************************)
\* a filter is supplied when its key is present with a non-empty value
Supplied(key) == key \in DOMAIN predicate /\ predicate[key] # ""

SuppliedFilters == { key \in FilterKeys : Supplied(key) }

\* the element passes the supplied filter `key`
Satisfies(e, key) ==
    CASE key = "type" -> Lower(e.element_type) = Lower(predicate[key])
      [] key = "label" -> e.label = predicate[key]
      [] key = "identifier" -> e.identifier = predicate[key]
      [] key = "text" -> display_text(e) = predicate[key]
      [] key = "text_contains" ->
            Contains(Lower(display_text(e)), Lower(predicate[key]))
      [] key = "text_starts_with" ->
            StartsWith(Lower(display_text(e)), Lower(predicate[key]))
      [] key = "bounds_hint" ->
            CASE predicate[key] = "top_half" -> center_y(e) <= 422
              [] predicate[key] = "bottom_half" -> center_y(e) > 422
              [] predicate[key] = "left_half" -> center_x(e) <= 195
              [] predicate[key] = "right_half" -> center_x(e) > 195
              [] predicate[key] = "center" ->
                    /\ 150 < center_x(e) /\ center_x(e) < 240
                    /\ 300 < center_y(e) /\ center_y(e) < 544

\* the positions (from 1) of the flat list whose element passes every
\* supplied filter
CandidatePositions ==
    { i \in 1..Len(elements) :
        \A key \in SuppliedFilters : Satisfies(elements[i], key) }

\* the predicate's index, 0 when it has none
RequestedIndex == IF "index" \in DOMAIN predicate THEN predicate["index"] ELSE 0

IndexClamping ==
    ( /\ fpc = "returned"
      /\ CandidatePositions # {}
      /\ RequestedIndex >= Cardinality(CandidatePositions) ) =>
        /\ found.outcome = "element"
        /\ \E j \in CandidatePositions :
              /\ \A i \in CandidatePositions : i <= j
              /\ found.elem = elements[j]

\* two candidates ahead of a last element that is none, and an index past them
IndexClampingWitness ==
    /\ fpc = "returned"
    /\ CandidatePositions = {1, 2}
    /\ Len(elements) = 3
    /\ RequestedIndex > 2
    /\ found = [outcome |-> "element", elem |-> elements[2]]

(***************************************************************************)
(* C10  For every flat list, every predicate and every integer index,      *)
(* negative ones and ones past the matches included, the call never        *)
(* raises: it returns None when no element passes the filters and one of   *)
(* the elements that pass them otherwise.                                  *)
(***************************************************************************)
NeverRaises ==
    fpc = "returned" =>
        /\ found.outcome # "raise"
        /\ CandidatePositions = {} => found.outcome = "none"
        /\ CandidatePositions # {} =>
              /\ found.outcome = "element"
              /\ \E j \in CandidatePositions : found.elem = elements[j]

(***************************************************************************)
(* SpecText: one find_element_by_predicate call whose predicate carries    *)
(* text filters only, on elements that take their display text from the    *)
(* label, the name, the value or the identifier.                           *)
(***************************************************************************)
TextElement(index, label, name, value, identifier) ==
    UIElement(index, "StaticText", label, name, value, identifier,
              TRUE, TRUE, TRUE, 0, 0, 0, 0)

TextElementsAt(index) ==
    { TextElement(index, "Settings", None, None, None),
      TextElement(index, "", "Open Settings", None, None),
      TextElement(index, None, None, "settings panel", None),
      TextElement(index, None, None, None, "SETTINGS"),
      TextElement(index, None, None, None, None) }

TextLists ==
    UNION { { l \in [1..n -> UNION { TextElementsAt(i) : i \in 0..(n - 1) }] :
                \A i \in 1..n : l[i].index = i - 1 }
            : n \in 0..MaxTextElems }

TextFilterKeys == {"text", "text_contains", "text_starts_with"}

TextFilterValues(key) ==
    CASE key = "text" -> {"Settings", "settings", ""}
      [] key = "text_contains" -> {"settings", "SET", "panel"}
      [] key = "text_starts_with" -> {"Open", "open s", "Set"}

TextPredicates ==
    UNION { { f \in [K -> UNION { TextFilterValues(k) : k \in K }] :
                \A k \in K : f[k] \in TextFilterValues(k) }
            : K \in (SUBSET TextFilterKeys) \ {{}} }

InitText ==
    /\ hierarchy = [kind |-> "button", children |-> <<>>]
    /\ ParserInit
    /\ RenderIdle
    /\ ServerIdle
    /\ ManagerIdle
    /\ elements \in TextLists
    /\ predicate \in TextPredicates
    /\ fpc = "ready"
    /\ matches = <<>>
    /\ found = NoFound

NextText == find_element_by_predicate

SpecText == InitText /\ [][NextText]_vars

\* two strs of one length are equal but for the case of their letters
SameIgnoringCase(a, b) ==
    /\ Len(a) = Len(b)
    /\ \A i \in 1..Len(a) : LowerChar(SubSeq(a, i, i)) = LowerChar(SubSeq(b, i, i))

\* what a text filter with the value v says of an element whose display
\* text is dt
TextFilterSays(key, v, dt) ==
    CASE key = "text" -> dt = v
      [] key = "text_contains" ->
            \E i \in 1..(Len(dt) - Len(v) + 1) :
                SameIgnoringCase(SubSeq(dt, i, i + Len(v) - 1), v)
      [] key = "text_starts_with" ->
            Len(v) <= Len(dt) /\ SameIgnoringCase(SubSeq(dt, 1, Len(v)), v)

\* the display texts of the flat list, in order
DisplayTexts == [i \in 1..Len(elements) |-> display_text(elements[i])]

SettingsTexts == <<"Settings", "Open Settings", "settings panel">>

EdgeXs == {150, 151, 195, 196, 239, 240}

EdgeYs == {300, 301, 422, 423, 543, 544}

\* an element of odd width 101 and height 44 whose center is (cx, cy)
ElementAround(index, cx, cy) ==
    UIElement(index, "Button", None, None, None, None, TRUE, TRUE, TRUE,
              cx - 50, cy - 22, 101, 44)

BoundsLists ==
    UNION { { l \in [1..n -> { ElementAround(i, cx, cy) :
                                 i \in 0..(n - 1), cx \in EdgeXs, cy \in EdgeYs }] :
                \A i \in 1..n : l[i].index = i - 1 }
            : n \in 0..MaxBoundsElems }

BoundsHints == {"top_half", "bottom_half", "left_half", "right_half", "center"}

InitBounds ==
    /\ hierarchy = [kind |-> "button", children |-> <<>>]
    /\ ParserInit
    /\ RenderIdle
    /\ ServerIdle
    /\ ManagerIdle
    /\ elements \in BoundsLists
    /\ predicate \in { [bounds_hint |-> h] : h \in BoundsHints }
    /\ fpc = "ready"
    /\ matches = <<>>
    /\ found = NoFound

NextBounds == find_element_by_predicate

SpecBounds == InitBounds /\ [][NextBounds]_vars

\* what the hint says of an element whose center is (cx, cy)
HintSays(hint, cx, cy) ==
    CASE hint = "top_half" -> cy <= 422
      [] hint = "bottom_half" -> cy > 422
      [] hint = "left_half" -> cx <= 195
      [] hint = "right_half" -> cx > 195
      [] hint = "center" -> 150 < cx /\ cx < 240 /\ 300 < cy /\ cy < 544

\* the element is kept by a call whose only filter is the hint
KeptUnder(hint, e) == Keeps(e, [bounds_hint |-> hint])

(***************************************************************************)
(* C12  The bounds hint uses the fixed 390x844 frame: top_half keeps       *)
(* center_y <= 422, bottom_half center_y > 422, left_half center_x <= 195, *)
(* right_half center_x > 195, center 150 < center_x < 240 and              *)
(* 300 < center_y < 544; so every element is kept by exactly one of        *)
(* top_half / bottom_half and by exactly one of left_half / right_half.    *)
(***************************************************************************)
BoundsHintFrame ==
    (fpc = "returned" /\ DOMAIN predicate = {"bounds_hint"}) =>
        /\ matches =
              SelectSeq(elements,
                        LAMBDA e : HintSays(predicate["bounds_hint"],
                                            center_x(e), center_y(e)))
        /\ \A i \in 1..Len(elements) :
              /\ KeptUnder("top_half", elements[i])
                    # KeptUnder("bottom_half", elements[i])
              /\ KeptUnder("left_half", elements[i])
                    # KeptUnder("right_half", elements[i])

\* top_half kept an element whose center lies on the middle line, right of
\* the vertical one
BoundsHintFrameWitness ==
    /\ fpc = "returned"
    /\ predicate = [bounds_hint |-> "top_half"]
    /\ Len(elements) = 1
    /\ center_y(elements[1]) = 422
    /\ center_x(elements[1]) = 196
    /\ matches = elements

(***************************************************************************)
(* Reading the root of a parse call.                                       *)
(***************************************************************************)
\* the caller's document is well-formed: parse reaches parse_element
WellFormed(c) == input[c] # NoInput /\ input[c].format # "malformed"

\* the fields parse_element extracts from the root of the caller's document
RootFields(c) ==
    IF Source(c).isstr THEN XmlFields(RootData(c)) ELSE JsonFields(RootData(c))

\* the root's geometry converts and a filter of the call removes the root
RootRemoved(c) ==
    /\ WellFormed(c)
    /\ GeometryOk(RootFields(c))
    /\ IF Source(c).isstr
       THEN XmlSkip(RootFields(c), input[c].only_visible,
                    input[c].only_interactable)
       ELSE JsonSkip(RootFields(c), input[c].only_visible,
                     input[c].only_interactable)

MalformedFailsWhole ==
    \A c \in Callers :
        (input[c] # NoInput /\ input[c].format = "malformed") =>
            /\ pc[c] = "error"
            /\ result[c] = Raised(ValueError(ParseError))
            /\ DOMAIN result[c] \cap {"root", "flat_list"} = {}
            /\ heap[c] = <<>>
            /\ flat_list[c] = <<>>

\* a parse of a malformed document raised after the call before it, on the
\* same parser, had returned elements
MalformedFailsWholeWitness ==
    /\ pc[1] = "error"
    /\ input[1].format = "malformed"
    /\ entry[1] = "stale"
    /\ result[1] = Raised(ValueError(ParseError))

(***************************************************************************)
(* SpecVariants: Spec over hierarchies whose nodes carry their attributes  *)
(* under both names, one name or none.                                     *)
(***************************************************************************)
InitVariants ==
    /\ hierarchy \in VariantHierarchies
    /\ ParserInit
    /\ RenderIdle
    /\ ServerIdle
    /\ ManagerIdle
    /\ FindIdle

SpecVariants == InitVariants /\ [][Next]_vars

\* the resolution order: the format's own name, the generic name, the default
Resolve(d, own, generic, default) ==
    IF own \in DOMAIN d THEN d[own]
    ELSE IF generic \in DOMAIN d THEN d[generic]
    ELSE default

\* the flag an XML attribute string stands for
XmlFlag(text) == Lower(text) = "true"

(***************************************************************************)
(* C15  An attribute present under both of its names in one node is taken  *)
(* from the format's own name, and an absent one gets its default (true    *)
(* for a flag, 0 for geometry): in JSON isEnabled, isVisible, isAccessible *)
(* win over enabled, visible, accessible; in XML accessibilityLabel wins   *)
(* over label and accessibilityIdentifier over identifier.                 *)
(***************************************************************************)
OwnNameWins ==
    Returned(1) =>
        \A i \in 1..Len(result[1].flat_list) :
            LET e == FlatElem(1, i)
                node == Kind(NodeAt(hierarchy, origin[1][result[1].flat_list[i]]).kind)
            IN  IF input[1].format = "json"
                THEN /\ e.enabled = Resolve(node.json, "isEnabled", "enabled", TRUE)
                     /\ e.visible = Resolve(node.json, "isVisible", "visible", TRUE)
                     /\ e.accessible
                           = Resolve(node.json, "isAccessible", "accessible", TRUE)
                     /\ "rect" \notin DOMAIN node.json
                           => <<e.x, e.y, e.width, e.height>> = <<0, 0, 0, 0>>
                ELSE /\ e.label = Resolve(node.xml.attrib, "accessibilityLabel",
                                          "label", None)
                     /\ e.identifier
                           = Resolve(node.xml.attrib, "accessibilityIdentifier",
                                     "identifier", None)
                     /\ e.enabled = XmlFlag(Get(node.xml.attrib, "enabled", "true"))
                     /\ e.visible = XmlFlag(Get(node.xml.attrib, "visible", "true"))
                     /\ e.accessible
                           = XmlFlag(Get(node.xml.attrib, "accessible", "true"))
                     /\ {"x", "y", "width", "height"} \cap DOMAIN node.xml.attrib = {}
                           => <<e.x, e.y, e.width, e.height>> = <<0, 0, 0, 0>>

(***************************************************************************)
(* UITreeParser.format_tree and format_flat_list                           *)
(***************************************************************************)
\* f' "{text}"' if text else ""
text_part(elem) ==
    IF display_text(elem) # "" THEN " \"" \o display_text(elem) \o "\"" ELSE ""

RECURSIVE Indent(_)
\* "  " * depth
Indent(depth) == IF depth = 0 THEN "" ELSE "  " \o Indent(depth - 1)

\* the line format_element appends for elem at depth
TreeLine(elem, depth, verbose) ==
    LET head == Indent(depth) \o "[" \o ToString(elem.index) \o "] "
                   \o elem.element_type \o text_part(elem)
        bounds == " [" \o ToString(elem.x) \o "," \o ToString(elem.y) \o " "
                     \o ToString(elem.width) \o "x" \o ToString(elem.height)
                     \o "]"
    IN  IF verbose THEN head \o bounds ELSE head

RECURSIVE format_element(_, _, _, _), format_children(_, _, _, _)
\* a mutant of format_element: the children are rendered at the depth of
\* their parent
format_element_same_depth(objects, id, depth, verbose) ==
    <<TreeLine(objects[id], depth, verbose)>>
        \o format_children(objects, objects[id].children, depth, verbose)

\* the lines format_element(elem, depth) appends, elem being the object id
\* among `objects`: its own line, then those of its children
format_element(objects, id, depth, verbose) ==
    <<TreeLine(objects[id], depth, verbose)>>
        \o format_children(objects, objects[id].children, depth + 1, verbose)

format_children(objects, ids, depth, verbose) ==
    IF ids = <<>> THEN <<>>
    ELSE format_element(objects, Head(ids), depth, verbose)
            \o format_children(objects, Tail(ids), depth, verbose)

\* the types format_flat_list shows without verbose, text or no text
QuickScanTypes == {"Button", "TextField", "SecureTextField", "Switch"}

\* the line format_flat_list appends for elem
FlatLine(elem, verbose) ==
    LET head == "[" \o ToString(elem.index) \o "] " \o elem.element_type
                   \o text_part(elem)
        bounds == " @ (" \o ToString(center_x(elem)) \o ","
                     \o ToString(center_y(elem)) \o ") ["
                     \o ToString(elem.width) \o "x" \o ToString(elem.height)
                     \o "]"
    IN  IF verbose THEN head \o bounds ELSE head

\* a mutant of FlatLines: the type alone decides, the text is not looked at
FlatLines_by_type_only(elems, verbose) ==
    LET Shown(e) == verbose \/ e.element_type \in QuickScanTypes
        shown == SelectSeq(elems, Shown)
    IN  [k \in 1..Len(shown) |-> FlatLine(shown[k], verbose)]

RECURSIVE FlatLines(_, _)
\* the list `lines` of format_flat_list after the loop over elems
FlatLines(elems, verbose) ==
    IF elems = <<>> THEN <<>>
    ELSE LET rest == FlatLines(SubSeq(elems, 1, Len(elems) - 1), verbose)
             elem == elems[Len(elems)]
         IN  IF verbose THEN Append(rest, FlatLine(elem, verbose))
             ELSE IF display_text(elem) # "" \/ elem.element_type \in QuickScanTypes
                 THEN Append(rest, FlatLine(elem, verbose))
             ELSE rest

RECURSIVE Join(_)
\* "\n".join(lines)
Join(lines) ==
    IF lines = <<>> THEN ""
    ELSE IF Len(lines) = 1 THEN lines[1]
    ELSE lines[1] \o "\n" \o Join(Tail(lines))

\* the elements of the flat list a parse call returned
ReturnedElements(c) ==
    [i \in 1..Len(result[c].flat_list) |-> heap[c][result[c].flat_list[i]]]

\* format_tree(root, elements, verbose) on what the caller's parse returned;
\* root is an element
format_tree(c, verbose) ==
    /\ pc[c] = "done"
    /\ result[c].root # NoneRef
    /\ output' = [mode |-> "tree", verbose |-> verbose,
                  elements |-> ReturnedElements(c),
                  text |-> Join(format_element(heap[c], result[c].root, 0, verbose))]
    /\ UNCHANGED <<hierarchy, parser_vars, find_vars, server_vars, manager_vars>>

\* format_flat_list(elements, verbose) on the flat list the caller's parse
\* returned
format_flat_list(c, verbose) ==
    /\ pc[c] = "done"
    /\ output' = [mode |-> "flat", verbose |-> verbose,
                  elements |-> ReturnedElements(c),
                  text |-> Join(FlatLines(ReturnedElements(c), verbose))]
    /\ UNCHANGED <<hierarchy, parser_vars, find_vars, server_vars, manager_vars>>

(***************************************************************************)
(* SpecRender: a caller parses and renders what parse returned, as a tree  *)
(* or as a flat list.                                                      *)
(***************************************************************************)
InitRender ==
    /\ hierarchy \in RenderHierarchies
    /\ ParserInit
    /\ RenderIdle
    /\ ServerIdle
    /\ ManagerIdle
    /\ FindIdle

NextRender ==
    \/ \E format \in {"json", "xml"}, only_interactable \in BOOLEAN :
          parse(1, format, TRUE, only_interactable)
    \/ parse_element(1)
    \/ parse_element_return(1)
    \/ \E verbose \in BOOLEAN : format_tree(1, verbose)
    \/ \E verbose \in BOOLEAN : format_flat_list(1, verbose)

SpecRender == InitRender /\ [][NextRender]_vars

(***************************************************************************)
(* Reading a rendering.                                                    *)
(***************************************************************************)
\* the position of the first line break of a text, 0 when it has none
FirstBreak(text) ==
    IF \E i \in 1..Len(text) : SubSeq(text, i, i) = "\n"
    THEN CHOOSE i \in 1..Len(text) :
            /\ SubSeq(text, i, i) = "\n"
            /\ \A j \in 1..(i - 1) : SubSeq(text, j, j) # "\n"
    ELSE 0

RECURSIVE Split(_)
\* text.split("\n")
Split(text) ==
    LET b == FirstBreak(text)
    IN  IF b = 0 THEN <<text>>
        ELSE <<SubSeq(text, 1, b - 1)>> \o Split(SubSeq(text, b + 1, Len(text)))

\* the lines of a rendering; the empty string has none
OutputLines(text) == IF text = "" THEN <<>> ELSE Split(text)

Rendered(mode) == output # NoOutput /\ output.mode = mode

(***************************************************************************)
(* C16  format_flat_list without verbose emits exactly one line for each   *)
(* element that has a non-empty display text or is of type Button,         *)
(* TextField, SecureTextField or Switch, in the flat list's order, and no  *)
(* line for any other element; with verbose it emits exactly one line per  *)
(* element.  Five labelled buttons and three unlabelled elements of type   *)
(* Other give exactly five lines.                                          *)
(***************************************************************************)
FlatViewLines ==
    Rendered("flat") =>
        LET Shown(e) ==
                \/ output.verbose
                \/ display_text(e) # ""
                \/ e.element_type
                      \in {"Button", "TextField", "SecureTextField", "Switch"}
            shown == SelectSeq(output.elements, Shown)
            lines == OutputLines(output.text)
        IN  /\ Len(lines) = Len(shown)
            /\ \A k \in 1..Len(shown) :
                  StartsWith(lines[k], "[" \o ToString(shown[k].index) \o "] "
                                          \o shown[k].element_type)
            /\ ( /\ ~output.verbose
                 /\ Len(output.elements) = 8
                 /\ Cardinality({ i \in 1..8 :
                        /\ output.elements[i].element_type = "Button"
                        /\ output.elements[i].label = "OK" }) = 5
                 /\ Cardinality({ i \in 1..8 :
                        /\ output.elements[i].element_type = "Other"
                        /\ display_text(output.elements[i]) = "" }) = 3 )
                  => Len(lines) = 5

\* the flat view without verbose of five labelled buttons and three
\* unlabelled elements of type Other, of five lines
FlatViewLinesWitness ==
    /\ Rendered("flat")
    /\ ~output.verbose
    /\ Len(output.elements) = 8
    /\ Cardinality({ i \in 1..8 : output.elements[i].element_type = "Other"
                                     /\ display_text(output.elements[i]) = "" }) = 3
    /\ Len(OutputLines(output.text)) = 5

\* the depth in the rendered tree of the element at position i of the flat
\* list: the number of its ancestors
RECURSIVE DepthOf(_)
DepthOf(i) ==
    IF \E j \in 1..Len(output.elements) :
           \E k \in 1..Len(output.elements[j].children) :
               output.elements[j].children[k] = i
    THEN 1 + DepthOf(CHOOSE j \in 1..Len(output.elements) :
                        \E k \in 1..Len(output.elements[j].children) :
                            output.elements[j].children[k] = i)
    ELSE 0

(***************************************************************************)
(* C17  format_tree on a parse result of N elements emits exactly N lines; *)
(* line i (from 0) describes the flat list's element i and shows index i,  *)
(* indented by two spaces per level of depth of that element, so that the  *)
(* line of a parent is followed at once by the lines of its subtree.       *)
(***************************************************************************)
TreeViewLines ==
    Rendered("tree") =>
        LET lines == OutputLines(output.text)
            N == Len(output.elements)
        IN  /\ Len(lines) = N
            /\ \A i \in 1..N :
                  /\ StartsWith(lines[i],
                                Indent(DepthOf(i)) \o "[" \o ToString(i - 1) \o "] "
                                   \o output.elements[i].element_type)
                  /\ output.elements[i].index = i - 1
                  /\ LET ch == output.elements[i].children
                     IN  \A k \in 1..Len(ch) :
                            /\ ch[k] > i
                            /\ \A j \in (i + 1)..ch[k] : DepthOf(j) > DepthOf(i)

\* the tree view of a root whose first child has a child of its own and a
\* sibling after it: four lines, the third indented by four spaces, the
\* fourth by two
TreeViewLinesWitness ==
    /\ Rendered("tree")
    /\ Len(output.elements) = 4
    /\ output.elements[1].children = <<2, 4>>
    /\ output.elements[2].children = <<3>>
    /\ StartsWith(OutputLines(output.text)[3], "    [2] ")
    /\ StartsWith(OutputLines(output.text)[4], "  [3] ")

(***************************************************************************)
(* parse as one call: what UITreeParser().parse(source, only_visible)      *)
(* returns for a JSON source, the elements of the flat list in order, the  *)
(* children of each given as positions (from 1) of that list.              *)
(***************************************************************************)
RECURSIVE ParseJsonNode(_, _, _, _), ParseJsonForest(_, _, _, _)
\* _parse_json.parse_element on elem_data with the counter at `counter`
ParseJsonNode(elem_data, only_visible, only_interactable, counter) ==
    LET out == JsonElement(elem_data, only_visible, only_interactable, counter)
    IN  CASE out.do = "raise" -> [ok |-> FALSE]
          [] out.do = "skip" -> [ok |-> TRUE, kept |-> FALSE, list |-> <<>>]
          [] out.do = "keep" ->
                LET sub == ParseJsonForest(JsonChildren(elem_data), only_visible,
                                           only_interactable, counter + 1)
                IN  IF ~sub.ok THEN [ok |-> FALSE]
                    ELSE [ok |-> TRUE, kept |-> TRUE,
                          list |-> <<[out.elem EXCEPT !.children = sub.roots]>>
                                      \o sub.list]

\* the loop over children_data: the elements made, and the positions of
\* those appended to the parent's children
ParseJsonForest(children_data, only_visible, only_interactable, counter) ==
    IF children_data = <<>> THEN [ok |-> TRUE, list |-> <<>>, roots |-> <<>>]
    ELSE LET first == ParseJsonNode(Head(children_data), only_visible,
                                    only_interactable, counter)
         IN  IF ~first.ok THEN [ok |-> FALSE]
             ELSE LET rest == ParseJsonForest(Tail(children_data), only_visible,
                                              only_interactable,
                                              counter + Len(first.list))
                  IN  IF ~rest.ok THEN [ok |-> FALSE]
                      ELSE [ok |-> TRUE,
                            list |-> first.list \o rest.list,
                            roots |-> (IF first.kept THEN <<counter + 1>>
                                       ELSE <<>>) \o rest.roots]

\* UITreeParser().parse(source, only_visible=only_visible) on a dict
ParseJson(data, only_visible) == ParseJsonNode(data, only_visible, FALSE, 0)

(***************************************************************************)
(* The server: the tool calls get_ui_tree and tap of handle_tool.  A tool  *)
(* call is one step; `shown` is the hierarchy the device's screen shows    *)
(* when the call fetches it, any of Screens at each call.                  *)
(***************************************************************************)
\* UIElement.to_dict(include_children=False)
to_dict(e) ==
    [index |-> e.index, type |-> e.element_type, label |-> e.label,
     name |-> e.name, value |-> e.value, identifier |-> e.identifier,
     enabled |-> e.enabled, visible |-> e.visible,
     bounds |-> [x |-> e.x, y |-> e.y, width |-> e.width, height |-> e.height],
     center |-> [x |-> center_x(e), y |-> center_y(e)]]

\* WDAClient.get_source(format="json") while the screen shows `shown`
get_source(shown) == SourceOf(shown, "json").data

\* what the tool call returns: a text, the value handed to json.dumps, or
\* the exception that left the handler
Text(text) == [text |-> text]
Dumped(value) == [json |-> value]

\* the screens: a Button over an unlabelled Other and an empty TextField; a
\* StaticText over an invisible Button and a visible one; an invisible root
Screens ==
    LET leaf(k) == [kind |-> k, children |-> <<>>]
    IN  { [kind |-> "button", children |-> <<leaf("plain"), leaf("field")>>],
          [kind |-> "named", children |-> <<leaf("hidden"), leaf("button")>>],
          leaf("hidden") }

\* UITreeParser().parse(source, only_visible) of every screen's source,
\* tabulated so that each is computed once
ParsedScreens ==
    [shown \in Screens |->
        [only_visible \in BOOLEAN |-> ParseJson(get_source(shown), only_visible)]]

\* source = await client.get_source(format="json"), then
\* UITreeParser().parse(source, only_visible=only_visible)
FetchAndParse(shown, only_visible) == ParsedScreens[shown][only_visible]

\* the format and verbose arguments of the get_ui_tree calls
ListingModes ==
    { [format |-> "tree", verbose |-> FALSE], [format |-> "flat", verbose |-> FALSE],
      [format |-> "flat", verbose |-> TRUE], [format |-> "json", verbose |-> FALSE] }

\* the output of get_ui_tree in a format: "json", "flat" or the tree
Format(listed, output_format, verbose) ==
    CASE output_format = "json" ->
           Dumped([i \in 1..Len(listed) |-> to_dict(listed[i])])
      [] output_format = "flat" -> Text(Join(FlatLines(listed, verbose)))
      [] OTHER -> Text(Join(format_element(listed, 1, 0, verbose)))

\* Format of every screen's elements, tabulated so that each is computed once
FormattedScreens ==
    [shown \in Screens |->
        [only_visible \in BOOLEAN |->
            [mode \in ListingModes |->
                LET parsed == ParsedScreens[shown][only_visible]
                IN  IF parsed.ok /\ parsed.kept
                    THEN Format(parsed.list, mode.format, mode.verbose)
                    ELSE Text("No UI elements found")]]]

FormatAs(shown, only_visible, output_format, verbose) ==
    FormattedScreens[shown][only_visible][[format |-> output_format,
                                           verbose |-> verbose]]

\* handle_tool("get_ui_tree", args)
get_ui_tree(device_id, verbose, only_visible, output_format, shown) ==
    LET parsed == FetchAndParse(shown, only_visible)
        args == [device_id |-> device_id, verbose |-> verbose,
                 only_visible |-> only_visible, format |-> output_format]
        Reply(reply, listed) ==
            [tool |-> "get_ui_tree", args |-> args, reply |-> reply,
             listed |-> listed, taps |-> <<>>]
    IN  /\ latest_listing' =
              IF device_id # None /\ parsed.ok
              THEN [d \in DOMAIN latest_listing \cup {device_id} |->
                      IF d = device_id THEN parsed.list ELSE latest_listing[d]]
              ELSE latest_listing
        /\ IF device_id = None
           THEN /\ call' = Reply(Raised(ValueError(NoCause)), <<>>)
                /\ UNCHANGED last_ui_elements
           ELSE IF ~parsed.ok
           THEN /\ call' = Reply(Raised(ValueError(NoCause)), <<>>)
                /\ UNCHANGED last_ui_elements
           ELSE IF ~parsed.kept
           THEN \* if not root
                /\ call' = Reply(Text("No UI elements found"), <<>>)
                /\ UNCHANGED last_ui_elements
           ELSE /\ last_ui_elements' = [d \in {device_id} |-> parsed.list]
                /\ call' = Reply(FormatAs(shown, only_visible, output_format, verbose),
                                 parsed.list)
        /\ UNCHANGED <<hierarchy, parser_vars, find_vars, render_vars, manager_vars>>

IndexError == [type |-> "IndexError"]

\* f"Tapped element [{index}] {elem.element_type} at ({elem.center_x}, ...)"
TappedElement(index, elem) ==
    Text("Tapped element [" \o ToString(index) \o "] " \o elem.element_type
            \o " at (" \o ToString(center_x(elem)) \o ", "
            \o ToString(center_y(elem)) \o ")")

\* the request client.tap(x, y) sends to the device
TapAt(x, y) == [x |-> x, y |-> y]

\* the tool call before this one was a get_ui_tree call for the device that
\* returned a listing
AfterListing(device_id) ==
    /\ call # NoCall
    /\ call.tool = "get_ui_tree"
    /\ call.args.device_id = device_id
    /\ call.listed # <<>>

\* a mutant of tap_by_index: the tree is fetched again on every tap
tap_by_index_refetches(device_id, index, shown) ==
    LET parsed == FetchAndParse(shown, TRUE)
        Reply(reply, taps) ==
            [tool |-> "tap", args |-> [device_id |-> device_id, index |-> index],
             reply |-> reply, taps |-> taps,
             after_listing |-> AfterListing(device_id)]
    IN  IF ~parsed.ok
        THEN /\ call' = Reply(Raised(ValueError(NoCause)), <<>>)
             /\ UNCHANGED last_ui_elements
        ELSE /\ last_ui_elements' =
                   [d \in DOMAIN last_ui_elements \cup {device_id} |->
                       IF d = device_id THEN parsed.list ELSE last_ui_elements[d]]
             /\ call' =
                   [used |-> parsed.list] @@
                   (IF index >= Len(parsed.list)
                    THEN Reply(Text("Invalid index " \o ToString(index)
                                      \o ". Max index is "
                                      \o ToString(Len(parsed.list) - 1)), <<>>)
                    ELSE LET item == PyItem(parsed.list, index)
                         IN  IF item.outcome = "raise"
                             THEN Reply(Raised(IndexError), <<>>)
                             ELSE Reply(TappedElement(index, item.elem),
                                        <<TapAt(center_x(item.elem),
                                                center_y(item.elem))>>))

\* handle_tool("tap", args), `if index is not None`: tap by index from the
\* UI tree
tap_by_index(device_id, index, shown) ==
    LET stored == Get(last_ui_elements, device_id, <<>>)
        refetch == stored = <<>>
        parsed == FetchAndParse(shown, TRUE)
        Reply(reply, taps) ==
            [tool |-> "tap", args |-> [device_id |-> device_id, index |-> index],
             reply |-> reply, taps |-> taps,
             after_listing |-> AfterListing(device_id)]
    IN  IF refetch /\ ~parsed.ok
        THEN /\ call' = Reply(Raised(ValueError(NoCause)), <<>>)
             /\ UNCHANGED last_ui_elements
        ELSE LET elems == IF refetch THEN parsed.list ELSE stored
             IN  /\ last_ui_elements' =
                       IF refetch
                       THEN [d \in DOMAIN last_ui_elements \cup {device_id} |->
                               IF d = device_id THEN elems ELSE last_ui_elements[d]]
                       ELSE last_ui_elements
                 /\ call' =
                       [used |-> elems] @@
                       (IF index >= Len(elems)
                        THEN Reply(Text("Invalid index " \o ToString(index)
                                          \o ". Max index is "
                                          \o ToString(Len(elems) - 1)), <<>>)
                        ELSE LET item == PyItem(elems, index)
                             IN  IF item.outcome = "raise"
                                 THEN Reply(Raised(IndexError), <<>>)
                                 ELSE Reply(TappedElement(index, item.elem),
                                            <<TapAt(center_x(item.elem),
                                                    center_y(item.elem))>>))

\* handle_tool("tap", args), `elif predicate`: tap by predicate
tap_by_predicate(device_id, p, shown) ==
    LET parsed == FetchAndParse(shown, TRUE)
        Reply(reply, taps) ==
            [tool |-> "tap", args |-> [device_id |-> device_id, predicate |-> p],
             reply |-> reply, taps |-> taps]
        elem == Select(Matches(parsed.list, p), Get(p, "index", 0))
    IN  /\ call' =
              IF ~parsed.ok THEN Reply(Raised(ValueError(NoCause)), <<>>)
              ELSE IF elem.outcome = "raise" THEN Reply(Raised(IndexError), <<>>)
              ELSE IF elem.outcome = "none"
              THEN Reply([text |-> "No element found matching predicate: ",
                          predicate |-> p], <<>>)
              ELSE Reply(TappedElement(elem.elem.index, elem.elem),
                         <<TapAt(center_x(elem.elem), center_y(elem.elem))>>)
        /\ UNCHANGED last_ui_elements

\* handle_tool("tap", args); args holds the arguments that are not None
tap(args, shown) ==
    /\ IF "device_id" \notin DOMAIN args
       THEN /\ call' = [tool |-> "tap", args |-> args,
                        reply |-> Raised(ValueError(NoCause)), taps |-> <<>>]
            /\ UNCHANGED last_ui_elements
       ELSE IF "index" \in DOMAIN args
       THEN tap_by_index(args.device_id, args.index, shown)
       ELSE IF "predicate" \in DOMAIN args /\ args.predicate # <<>>
       THEN tap_by_predicate(args.device_id, args.predicate, shown)
       ELSE IF "x" \in DOMAIN args /\ "y" \in DOMAIN args
       THEN /\ call' = [tool |-> "tap", args |-> args,
                        reply |-> Text("Tapped at (" \o ToString(args.x) \o ", "
                                          \o ToString(args.y) \o ")"),
                        taps |-> <<TapAt(args.x, args.y)>>]
            /\ UNCHANGED last_ui_elements
       ELSE /\ call' = [tool |-> "tap", args |-> args,
                        reply |-> Text("Please provide index, predicate, or x/y coordinates"),
                        taps |-> <<>>]
            /\ UNCHANGED last_ui_elements
    /\ UNCHANGED latest_listing
    /\ UNCHANGED <<hierarchy, parser_vars, find_vars, render_vars, manager_vars>>

(***************************************************************************)
(* SpecServer: get_ui_tree and tap calls on two devices whose screens      *)
(* change from one call to the next.                                       *)
(***************************************************************************)
TapArgs ==
    { [device_id |-> d, index |-> i] :
         d \in Devices, i \in (0 - 1)..MaxTapIndex }
      \cup { [device_id |-> d, predicate |-> p] :
                d \in Devices, p \in {[type |-> "button"], [text |-> "Nope"]} }
      \cup { [device_id |-> d, x |-> 5, y |-> 7] : d \in Devices }
      \cup { [device_id |-> d] : d \in Devices }
      \cup { [index |-> 0] }

\* the tap call fetches the source from the device
Fetches(args) ==
    /\ "device_id" \in DOMAIN args
    /\ \/ "index" \in DOMAIN args
             /\ Get(last_ui_elements, args.device_id, <<>>) = <<>>
       \/ "index" \notin DOMAIN args /\ "predicate" \in DOMAIN args

\* the screen of a device that no call looks at
NoScreen == [kind |-> "hidden", children |-> <<>>]

InitServer ==
    /\ hierarchy = [kind |-> "button", children |-> <<>>]
    /\ ParserInit
    /\ RenderIdle
    /\ FindIdle
    /\ ServerIdle
    /\ ManagerIdle

NextServer ==
    \/ \E device_id \in Devices, only_visible \in BOOLEAN, mode \in ListingModes,
          shown \in Screens :
          get_ui_tree(device_id, mode.verbose, only_visible, mode.format, shown)
    \/ \E shown \in Screens : get_ui_tree(None, FALSE, TRUE, "tree", shown)
    \/ \E args \in TapArgs :
          \E shown \in (IF Fetches(args) THEN Screens ELSE {NoScreen}) :
             tap(args, shown)

SpecServer == InitServer /\ [][NextServer]_vars


\* the tap call just made was a tap by index on the device the call before
\* it listed with get_ui_tree, with an index that listing showed
TapAfterListing ==
    /\ call # NoCall
    /\ call.tool = "tap"
    /\ "index" \in DOMAIN call.args
    /\ "device_id" \in DOMAIN call.args
    /\ "after_listing" \in DOMAIN call
    /\ call.after_listing
    /\ call.args.index \in 0..(Len(latest_listing[call.args.device_id]) - 1)

\* the element the listing showed under an index
Listed(listed, index) ==
    listed[CHOOSE i \in 1..Len(listed) : listed[i].index = index]

InitDisplay ==
    /\ hierarchy \in DisplayHierarchies
    /\ ParserInit
    /\ RenderIdle
    /\ ServerIdle
    /\ ManagerIdle
    /\ FindIdle

SpecDisplay == InitDisplay /\ [][Next]_vars

\* the first of the texts that is neither absent nor empty, else ""
FirstNonEmpty(texts) ==
    LET present == { i \in 1..Len(texts) : texts[i] # None /\ texts[i] # "" }
    IN  IF present = {} THEN ""
        ELSE texts[CHOOSE i \in present : \A j \in present : i <= j]

\* C19: the display text of an element is the first non-empty one of its
\* label, its name, its value as a string and its identifier, in that
\* order, and the empty string when all four are absent or empty.
DisplayTextIsFirstNonEmpty ==
    Returned(1) =>
        \A i \in 1..Len(result[1].flat_list) :
            LET e == FlatElem(1, i)
            IN  display_text(e)
                  = FirstNonEmpty(<<e.label, e.name,
                                    IF e.value = None THEN None ELSE str(e.value),
                                    e.identifier>>)

(***************************************************************************)
(* SpecCenter: the search by region over elements of even, odd, zero and   *)
(* negative sizes.                                                         *)
(***************************************************************************)
CenterSizes == {<<100, 50>>, <<101, 51>>, <<1, 0>>, <<0, 1>>, <<-3, -1>>}

CenterElementsAt(index) ==
    { UIElement(index, "Button", None, None, None, None, TRUE, TRUE, TRUE,
                x, y, size[1], size[2]) :
        x \in {-7, 10, 150}, y \in {20, 400}, size \in CenterSizes }

CenterLists ==
    UNION { { l \in [1..n -> UNION { CenterElementsAt(i) : i \in 0..(n - 1) }] :
                \A i \in 1..n : l[i].index = i - 1 }
            : n \in 0..MaxCenterElems }

InitCenter ==
    /\ hierarchy = [kind |-> "button", children |-> <<>>]
    /\ ParserInit
    /\ RenderIdle
    /\ ServerIdle
    /\ ManagerIdle
    /\ elements \in CenterLists
    /\ predicate \in { [bounds_hint |-> h] : h \in BoundsHints }
    /\ fpc = "ready"
    /\ matches = <<>>
    /\ found = NoFound

NextCenter == find_element_by_predicate

SpecCenter == InitCenter /\ [][NextCenter]_vars

\* floor(n / 2): the integer q with 2q <= n < 2q + 2
FloorHalf(n) == CHOOSE q \in (0 - 200)..200 : 2 * q <= n /\ n < 2 * q + 2

\* C20: the center of an element is (x + floor(width / 2),
\* y + floor(height / 2)): x=10, y=20, width=100, height=50 has the center
\* (60, 45), and the half of an odd width or height is rounded down.
CenterIsFlooredHalf ==
    \A i \in 1..Len(elements) :
        LET e == elements[i]
        IN  /\ center_x(e) = e.x + FloorHalf(e.width)
            /\ center_y(e) = e.y + FloorHalf(e.height)
            /\ <<e.x, e.y, e.width, e.height>> = <<10, 20, 100, 50>>
                  => <<center_x(e), center_y(e)>> = <<60, 45>>
            /\ <<e.x, e.y, e.width, e.height>> = <<10, 20, 101, 51>>
                  => <<center_x(e), center_y(e)>> = <<60, 45>>

\* the search by region returned an element of odd width and height, kept
\* by its center (60, 45)
CenterIsFlooredHalfWitness ==
    /\ fpc = "returned"
    /\ predicate = [bounds_hint |-> "left_half"]
    /\ Len(elements) = 1
    /\ <<elements[1].x, elements[1].y>> = <<10, 20>>
    /\ <<elements[1].width, elements[1].height>> = <<101, 51>>
    /\ matches = elements

(***************************************************************************)
(* SpecGeometry: Spec over hierarchies with nodes whose x is the text      *)
(* "10.7".                                                                 *)
(***************************************************************************)
InitGeometry ==
    /\ hierarchy \in GeometryHierarchies
    /\ ParserInit
    /\ RenderIdle
    /\ ServerIdle
    /\ ManagerIdle
    /\ FindIdle

SpecGeometry == InitGeometry /\ [][Next]_vars

\* C21: in both wire formats a geometry field given as the text "10.7" is
\* accepted and stored as 10: a parse of a well-formed document whose
\* geometry is numbers and such texts does not fail, and the elements made
\* from the nodes with x "10.7" have x = 10.
FloatTextAccepted ==
    (WellFormed(1) /\ pc[1] \in {"done", "error"}) =>
        /\ pc[1] = "done"
        /\ \A i \in 1..Len(result[1].flat_list) :
              NodeAt(hierarchy, origin[1][result[1].flat_list[i]]).kind = "float_text"
                 => FlatElem(1, i).x = 10

(***************************************************************************)
(* Screen recording: the tool calls start_recording and stop_recording of  *)
(* handle_tool and the SimulatorManager methods they call.  The calls of   *)
(* two callers run as tasks of one event loop: a step runs a call from its *)
(* start, or from an await, to its next await or its end.                  *)
(***************************************************************************)
SimulatorError == [type |-> "SimulatorError"]

\* dict.pop(key, None) and d[key] = value
Without(d, key) == [k \in DOMAIN d \ {key} |-> d[k]]
With(d, key, value) == [k \in DOMAIN d \cup {key} |-> IF k = key THEN value ELSE d[k]]

\* proc.returncode is None
Running(p) == processes[p].returncode = None

\* SimulatorManager.is_recording
is_recording(udid) ==
    /\ udid \in DOMAIN recording_processes
    /\ Running(recording_processes[udid])

\* the task of caller c is not inside a call
Free(c) == task[c].pc \in {"idle", "returned", "raised"}

Spawning == { c \in Callers : task[c].pc = "spawning" }

\* handle_tool("start_recording", args) and SimulatorManager.start_recording
\* up to `await asyncio.create_subprocess_exec`
start_recording(c, device_id, codec, timestamp) ==
    LET Call(state, reply) ==
            [pc |-> state, tool |-> "start_recording", device_id |-> device_id,
             codec |-> codec, filepath |-> timestamp,
             was_recording |-> is_recording(device_id), reply |-> reply]
    IN  /\ Free(c)
        /\ Len(processes) + Cardinality(Spawning) < MaxProcesses
        /\ IF ~Truthy(device_id)
           THEN /\ task' = [task EXCEPT ![c] = Call("raised", ValueError(NoCause))]
                /\ UNCHANGED recording_paths
           ELSE IF is_recording(device_id)
           THEN /\ task' = [task EXCEPT ![c] =
                      Call("returned",
                           Text("Recording already in progress. Use stop_recording first."))]
                /\ UNCHANGED recording_paths
           ELSE /\ recording_paths' = With(recording_paths, device_id, timestamp)
                /\ task' = [task EXCEPT ![c] =
                      IF device_id \in DOMAIN recording_processes
                      THEN Call("raised", SimulatorError)
                      ELSE Call("spawning", None)]
        /\ UNCHANGED <<recording_processes, processes>>
        /\ UNCHANGED not_rec_vars

\* start_recording from the return of create_subprocess_exec: the process
\* runs and is registered
start_recording_spawned(c) ==
    /\ task[c].pc = "spawning"
    /\ processes' = Append(processes,
                           [udid |-> task[c].device_id, codec |-> task[c].codec,
                            returncode |-> None])
    /\ recording_processes'
          = With(recording_processes, task[c].device_id, Len(processes) + 1)
    /\ task' = [task EXCEPT ![c] =
                   [task[c] EXCEPT !.pc = "returned",
                                   !.reply = [text |-> "Screen recording started",
                                              codec |-> task[c].codec,
                                              path |-> task[c].filepath]]
                    @@ [proc |-> Len(processes) + 1]]
    /\ UNCHANGED recording_paths
    /\ UNCHANGED not_rec_vars

\* handle_tool("stop_recording", args) and SimulatorManager.stop_recording
\* up to `await asyncio.wait_for(proc.wait(), ...)`
stop_recording(c, device_id) ==
    LET Call(state, reply) ==
            [pc |-> state, tool |-> "stop_recording", device_id |-> device_id,
             was_recording |-> is_recording(device_id), reply |-> reply]
    IN  /\ Free(c)
        /\ IF ~Truthy(device_id)
           THEN /\ task' = [task EXCEPT ![c] = Call("raised", ValueError(NoCause))]
                /\ UNCHANGED <<recording_paths, recording_processes>>
           ELSE IF ~is_recording(device_id)
           THEN /\ task' = [task EXCEPT ![c] =
                               Call("returned", Text("No recording in progress"))]
                /\ UNCHANGED <<recording_paths, recording_processes>>
           ELSE /\ recording_paths' = Without(recording_paths, device_id)
                /\ recording_processes' = Without(recording_processes, device_id)
                /\ task' = [task EXCEPT ![c] =
                               Call("stopping", None)
                                  @@ [proc |-> recording_processes[device_id],
                                      filepath |-> Get(recording_paths, device_id, None)]]
        /\ UNCHANGED processes
        /\ UNCHANGED not_rec_vars

\* stop_recording from the return of proc.wait(): the process has exited,
\* on SIGINT or killed after the timeout; the file is there or not yet
stop_recording_stopped(c, exists) ==
    /\ task[c].pc = "stopping"
    /\ processes' = [processes EXCEPT ![task[c].proc].returncode =
                        IF @ = None THEN "0" ELSE @]
    /\ task' = [task EXCEPT ![c].pc = "returned",
                            ![c].reply =
                               IF task[c].filepath # None /\ exists
                               THEN [text |-> "Screen recording saved",
                                     path |-> task[c].filepath]
                               ELSE Text("Recording stopped but file may still be processing")]
    /\ UNCHANGED <<recording_processes, recording_paths>>
    /\ UNCHANGED not_rec_vars

\* a recording subprocess exits on its own (the simulator shut down, the
\* disk is full)
ProcessExits(p) ==
    /\ Running(p)
    /\ processes' = [processes EXCEPT ![p].returncode = "1"]
    /\ UNCHANGED <<recording_processes, recording_paths, task>>
    /\ UNCHANGED not_rec_vars

Codecs == {"hevc", "h264"}

Timestamps == {"20240101-120000"}

InitRecording ==
    /\ hierarchy = [kind |-> "button", children |-> <<>>]
    /\ ParserInit
    /\ RenderIdle
    /\ FindIdle
    /\ ServerIdle
    /\ ManagerIdle

NextRecording ==
    \/ \E c \in Callers, device_id \in Devices \cup {None}, codec \in Codecs,
          timestamp \in Timestamps :
          start_recording(c, device_id, codec, timestamp)
    \/ \E c \in Callers : start_recording_spawned(c)
    \/ \E c \in Callers, device_id \in Devices \cup {None} :
          stop_recording(c, device_id)
    \/ \E c \in Callers, exists \in BOOLEAN : stop_recording_stopped(c, exists)
    \/ \E p \in 1..Len(processes) : ProcessExits(p)

SpecRecording == InitRecording /\ [][NextRecording]_vars

\* the recording subprocesses of a device that run
RunningFor(udid) ==
    { p \in 1..Len(processes) : processes[p].udid = udid /\ Running(p) }

\* a stop_recording call is waiting for the process p to exit
BeingStopped(p) ==
    \E c \in Callers : task[c].pc = "stopping" /\ task[c].proc = p

\* C22: under every interleaving of start_recording and stop_recording
\* calls, at most one recording subprocess of a device runs at any time and
\* every running one is registered in _recording_processes until a
\* stop_recording stops it; a start_recording issued while a recording runs
\* spawns nothing and reports that a recording is in progress.
OneRecordingPerDevice ==
    /\ \A udid \in Devices : Cardinality(RunningFor(udid)) <= 1
    /\ \A p \in 1..Len(processes) :
          Running(p) =>
             \/ /\ processes[p].udid \in DOMAIN recording_processes
                /\ recording_processes[processes[p].udid] = p
             \/ BeingStopped(p)
    /\ \A c \in Callers :
          (task[c].pc # "idle" /\ task[c].tool = "start_recording"
             /\ Truthy(task[c].device_id) /\ task[c].was_recording)
             => /\ task[c].pc = "returned"
                /\ task[c].reply
                     = Text("Recording already in progress. Use stop_recording first.")

\* C26: a start_recording call made for a device while is_recording is
\* false for it, also after the recording subprocess exited on its own,
\* starts a new recording: it does not fail.
StartsWhenNotRecording ==
    \A c \in Callers :
        (task[c].pc # "idle" /\ task[c].tool = "start_recording"
           /\ Truthy(task[c].device_id) /\ ~task[c].was_recording)
           => task[c].pc \in {"spawning", "returned"}

(***************************************************************************)
(* One WDAClient and its session.  Two callers run get_source (a session-  *)
(* scoped operation) and the reset_session tool as tasks of one event      *)
(* loop; a step runs a call up to the request it sends and awaits.  The    *)
(* server handles a DELETE in a step of its own, between the request and   *)
(* the return of its reply.                                                *)
(***************************************************************************)
WDAError == [type |-> "WDAError"]

SessionName(n) == "session-" \o ToString(n)

WFree(c) == wtask[c].pc \in {"idle", "returned", "raised"}

\* the calls under way that may still create a session
MayCreate ==
    { c \in Callers : wtask[c].pc \in {"creating", "deleting", "deleted", "checking"} }

\* the request of a session-scoped operation, as sent: the session id in
\* its path and whether the server still had that session then
SessionRequest(id) ==
    [method |-> "GET", session |-> id, existed |-> id \in wda_sessions]

\* WDAClient.get_source up to its first await that suspends: _ensure_session
\* and, when a session id is there, the GET request
get_source_call(c) ==
    /\ WFree(c)
    /\ issued + Cardinality(MayCreate) < MaxSessions
    /\ wtask' = [wtask EXCEPT ![c] =
                    IF Truthy(session_id)
                    THEN [pc |-> "requesting", tool |-> "get_source",
                          request |-> SessionRequest(session_id)]
                    ELSE [pc |-> "creating", tool |-> "get_source"]]
    /\ UNCHANGED <<session_id, wda_sessions, issued>>
    /\ UNCHANGED not_wda_vars

\* create_session from the reply to POST /session: the server made a
\* session, or the request failed; _ensure_session returns self.session_id
\* and get_source sends its request
create_session_returns(c, ok) ==
    /\ wtask[c].pc = "creating"
    /\ IF ok
       THEN LET id == SessionName(issued + 1)
            IN  /\ issued' = issued + 1
                /\ wda_sessions' = wda_sessions \cup {id}
                /\ session_id' = id
                /\ wtask' = [wtask EXCEPT ![c] =
                      IF wtask[c].tool = "get_source"
                      THEN [pc |-> "requesting", tool |-> "get_source",
                            created |-> id,
                            request |-> [method |-> "GET", session |-> id,
                                         existed |-> TRUE]]
                      ELSE [pc |-> "returned", tool |-> wtask[c].tool,
                            created |-> id,
                            reply |-> [text |-> "Session reset. New session created",
                                       id |-> id]]]
       ELSE /\ wtask' = [wtask EXCEPT ![c] =
                            [pc |-> "raised", tool |-> wtask[c].tool,
                             reply |-> Raised(WDAError)]]
            /\ UNCHANGED <<session_id, wda_sessions, issued>>
    /\ UNCHANGED not_wda_vars

\* the reply to the request of get_source: the source, or an error when the
\* server has no such session
request_returns(c) ==
    /\ wtask[c].pc = "requesting"
    /\ wtask' = [wtask EXCEPT ![c] =
                    IF wtask[c].request.session \in wda_sessions
                    THEN [wtask[c] EXCEPT !.pc = "returned"]
                    ELSE [wtask[c] EXCEPT !.pc = "raised"]]
    /\ UNCHANGED <<session_id, wda_sessions, issued>>
    /\ UNCHANGED not_wda_vars

\* handle_tool("reset_session", args): reset_wda_session and delete_session
\* up to the DELETE request, or up to the GET /status of health_check
reset_session(c) ==
    /\ WFree(c)
    /\ issued + Cardinality(MayCreate) < MaxSessions
    /\ IF Truthy(session_id)
       THEN /\ wtask' = [wtask EXCEPT ![c] =
                            [pc |-> "deleting", tool |-> "reset_session",
                             request |-> [method |-> "DELETE", session |-> session_id,
                                          existed |-> session_id \in wda_sessions]]]
            /\ UNCHANGED session_id
       ELSE /\ wtask' = [wtask EXCEPT ![c] =
                            [pc |-> "checking", tool |-> "reset_session",
                             after_delete |-> None]]
            /\ session_id' = None
    /\ UNCHANGED <<wda_sessions, issued>>
    /\ UNCHANGED not_wda_vars

\* the server handles the DELETE request: the session is gone, or the
\* request fails
wda_deletes(c, ok) ==
    /\ wtask[c].pc = "deleting"
    /\ wda_sessions' = IF ok THEN wda_sessions \ {wtask[c].request.session}
                       ELSE wda_sessions
    /\ wtask' = [wtask EXCEPT ![c].pc = "deleted"]
    /\ UNCHANGED <<session_id, issued>>
    /\ UNCHANGED not_wda_vars

\* delete_session from the reply to its DELETE (an error is logged):
\* self.session_id = None; then health_check sends GET /status
delete_session_returns(c) ==
    /\ wtask[c].pc = "deleted"
    /\ session_id' = None
    /\ wtask' = [wtask EXCEPT ![c] =
                    [pc |-> "checking", tool |-> "reset_session",
                     after_delete |-> None]]
    /\ UNCHANGED <<wda_sessions, issued>>
    /\ UNCHANGED not_wda_vars

\* reset_session from the reply to GET /status: create_session sends
\* POST /session, or WDA does not respond
health_check_returns(c, healthy) ==
    /\ wtask[c].pc = "checking"
    /\ wtask' = [wtask EXCEPT ![c] =
                    IF healthy
                    THEN [pc |-> "creating", tool |-> "reset_session"]
                    ELSE [pc |-> "returned", tool |-> "reset_session",
                          reply |-> Text("Session reset, but WDA is not responding. Please restart WDA.")]]
    /\ UNCHANGED <<session_id, wda_sessions, issued>>
    /\ UNCHANGED not_wda_vars

InitSession ==
    /\ hierarchy = [kind |-> "button", children |-> <<>>]
    /\ ParserInit
    /\ RenderIdle
    /\ FindIdle
    /\ ServerIdle
    /\ ManagerIdle

NextSession ==
    \/ \E c \in Callers : get_source_call(c)
    \/ \E c \in Callers, ok \in BOOLEAN : create_session_returns(c, ok)
    \/ \E c \in Callers : request_returns(c)
    \/ \E c \in Callers : reset_session(c)
    \/ \E c \in Callers, ok \in BOOLEAN : wda_deletes(c, ok)
    \/ \E c \in Callers : delete_session_returns(c)
    \/ \E c \in Callers, healthy \in BOOLEAN : health_check_returns(c, healthy)

SpecSession == InitSession /\ [][NextSession]_vars

\* the session ids the server has handed to this client
Created == { SessionName(n) : n \in 1..issued }

\* C23: under every interleaving of the calls on one client, delete_session
\* leaves session_id None whether or not its DELETE succeeded, and every
\* request of a session-scoped operation carries a session id that a
\* create_session of this client got and that has not been deleted since;
\* with no session, the operation creates one before it sends its request.
SessionScopedRequestsUseLiveSession ==
    \A c \in Callers :
        /\ (wtask[c].pc = "checking") => wtask[c].after_delete = None
        /\ (wtask[c].pc = "requesting") =>
              /\ wtask[c].request.session \in Created
              /\ wtask[c].request.existed

\* the tap call just made was a tap by index that resolved its index
\* against a list
TapByIndex ==
    /\ call # NoCall
    /\ call.tool = "tap"
    /\ "index" \in DOMAIN call.args
    /\ "used" \in DOMAIN call

\* C24: after any sequence of get_ui_tree and tap calls over several
\* devices, a tap by index on a device resolves the index against the
\* element list that the most recent get_ui_tree of that device produced,
\* whatever get_ui_tree did on another device since, and also when that
\* most recent get_ui_tree found no elements.
TapUsesLatestListing ==
    (TapByIndex /\ call.args.device_id \in DOMAIN latest_listing)
        => call.used = latest_listing[call.args.device_id]

\* C25: a tap by index sends a tap only when 0 <= index < len(elements);
\* for every other index it sends none and returns the "Invalid index"
\* message, without raising.
TapOnlyWithinRange ==
    TapByIndex =>
        IF call.args.index \in 0..(Len(call.used) - 1)
        THEN Len(call.taps) = 1
        ELSE /\ call.taps = <<>>
             /\ call.reply = Text("Invalid index " \o ToString(call.args.index)
                                    \o ". Max index is "
                                    \o ToString(Len(call.used) - 1))

(***************************************************************************)
(* SimulatorManager: list_devices, boot and shutdown, called one after the *)
(* other.  The simulators exist outside the program: they are created and  *)
(* deleted there, and time passes between two calls.                       *)
(***************************************************************************)
Udids == Devices

\* `simctl list devices -j` is run: its report is cached on top of what the
\* cache holds
Queried ==
    [udid \in DOMAIN devices_cache \cup DOMAIN simctl |->
        IF udid \in DOMAIN simctl THEN simctl[udid] ELSE devices_cache[udid]]

\* list_devices serves the cache
Cached(refresh) == ~refresh /\ devices_cache # <<>> /\ cache_fresh

\* SimulatorManager.list_devices
list_devices(refresh) ==
    /\ IF Cached(refresh)
       THEN /\ sim_call' = [tool |-> "list_devices", refresh |-> refresh,
                            from_cache |-> TRUE, devices |-> devices_cache]
            /\ UNCHANGED <<devices_cache, cache_fresh, last_query>>
       ELSE /\ sim_call' = [tool |-> "list_devices", refresh |-> refresh,
                            from_cache |-> FALSE, devices |-> simctl]
            /\ devices_cache' = Queried
            /\ cache_fresh' = TRUE
            /\ last_query' = simctl
    /\ UNCHANGED simctl
    /\ UNCHANGED not_sim_vars

\* SimulatorManager.boot (to = "Booted") and SimulatorManager.shutdown
\* (to = "Shutdown"): get_device, then the simctl command and the clearing
\* of the cache
switch(tool, udid, to) ==
    LET cached == Cached(FALSE)
        devices == IF cached THEN devices_cache ELSE simctl
        Call(raised, ran) ==
            [tool |-> tool, udid |-> udid, from_cache |-> cached,
             raised |-> raised, ran |-> ran]
    IN  /\ IF cached
           THEN UNCHANGED last_query
           ELSE last_query' = simctl
        /\ IF udid \notin DOMAIN devices
           THEN \* Device not found
                /\ sim_call' = Call(TRUE, FALSE)
                /\ devices_cache' = IF cached THEN devices_cache ELSE Queried
                /\ cache_fresh' = TRUE
                /\ UNCHANGED simctl
           ELSE IF devices[udid] = to
           THEN \* already booted, already shut down
                /\ sim_call' = Call(FALSE, FALSE)
                /\ devices_cache' = IF cached THEN devices_cache ELSE Queried
                /\ cache_fresh' = TRUE
                /\ UNCHANGED simctl
           ELSE IF udid \notin DOMAIN simctl \/ simctl[udid] = to
           THEN \* the simctl command fails
                /\ sim_call' = Call(TRUE, TRUE)
                /\ devices_cache' = IF cached THEN devices_cache ELSE Queried
                /\ cache_fresh' = TRUE
                /\ UNCHANGED simctl
           ELSE /\ sim_call' = Call(FALSE, TRUE)
                /\ simctl' = [simctl EXCEPT ![udid] = to]
                /\ devices_cache' = <<>>
                /\ cache_fresh' = TRUE
        /\ UNCHANGED not_sim_vars

boot(udid) == switch("boot", udid, "Booted")

shutdown(udid) == switch("shutdown", udid, "Shutdown")

\* more than _cache_ttl seconds pass
CacheExpires ==
    /\ cache_fresh
    /\ cache_fresh' = FALSE
    /\ UNCHANGED <<devices_cache, simctl, last_query, sim_call>>
    /\ UNCHANGED not_sim_vars

\* a simulator is created, shut down, outside the program
DeviceCreated(udid) ==
    /\ udid \notin DOMAIN simctl
    /\ simctl' = With(simctl, udid, "Shutdown")
    /\ UNCHANGED <<devices_cache, cache_fresh, last_query, sim_call>>
    /\ UNCHANGED not_sim_vars

\* a simulator is deleted outside the program
DeviceDeleted(udid) ==
    /\ udid \in DOMAIN simctl
    /\ simctl' = Without(simctl, udid)
    /\ UNCHANGED <<devices_cache, cache_fresh, last_query, sim_call>>
    /\ UNCHANGED not_sim_vars

InitSimulators ==
    /\ hierarchy = [kind |-> "button", children |-> <<>>]
    /\ ParserInit
    /\ RenderIdle
    /\ FindIdle
    /\ ServerIdle
    /\ ManagerIdle

NextSimulators ==
    \/ \E refresh \in BOOLEAN : list_devices(refresh)
    \/ \E udid \in Udids : boot(udid)
    \/ \E udid \in Udids : shutdown(udid)
    \/ CacheExpires
    \/ \E udid \in Udids : DeviceCreated(udid)
    \/ \E udid \in Udids : DeviceDeleted(udid)

SpecSimulators == InitSimulators /\ [][NextSimulators]_vars

\* C30: after any sequence of list_devices, boot and shutdown calls, a
\* list_devices(refresh=False) served from the cache returns exactly the
\* devices that the most recent simctl query reported, and none that this
\* query no longer reported; after a boot or shutdown that ran its simctl
\* command the cache is empty, so that the next lookup queries simctl.
CacheServesLatestQuery ==
    /\ (sim_call # NoCall /\ sim_call.tool = "list_devices" /\ sim_call.from_cache)
          => DOMAIN sim_call.devices = DOMAIN last_query
    /\ (sim_call # NoCall /\ sim_call.tool \in {"boot", "shutdown"}
          /\ sim_call.ran /\ ~sim_call.raised)
          => devices_cache = <<>>

(***************************************************************************)
(* The registry of WebDriverAgent clients: start_bridge and the tools that *)
(* talk to WebDriverAgent, called one after the other.                     *)
(***************************************************************************)
DEFAULT_WDA_PORT == 8100

\* the WDA_HOST environment variable is not set
WDA_HOST == "127.0.0.1"

\* a WDAClient object; the key it was created under tells two objects with
\* the same host and port apart
WDAClient(host, port, key) == [host |-> host, port |-> port, key |-> key]

\* host or WDA_HOST
ActualHost(host) == IF host \in {None, ""} THEN WDA_HOST ELSE host

\* f"{device_id}:{actual_host}:{port}"
ClientKey(device_id, port, host) ==
    device_id \o ":" \o ActualHost(host) \o ":" \o ToString(port)

\* wda_clients after get_wda_client(device_id, port, host)
Registered(device_id, port, host) ==
    LET key == ClientKey(device_id, port, host)
        client == WDAClient(ActualHost(host), port, key)
    IN  IF key \notin DOMAIN wda_clients
        THEN With(With(wda_clients, key, client), device_id, client)
        ELSE wda_clients

\* what get_wda_client(device_id, port, host) returns
get_wda_client(device_id, port, host) ==
    Registered(device_id, port, host)[ClientKey(device_id, port, host)]

\* handle_tool("start_bridge", args); healthy: WebDriverAgent answers the
\* health check of the client, and then the request for a session
start_bridge(args, healthy) ==
    LET device_id == args.device_id
        port == Get(args, "port", DEFAULT_WDA_PORT)
        host == Get(args, "host", WDA_HOST)
        client == get_wda_client(device_id, port, host)
    IN  /\ wda_clients' = Registered(device_id, port, host)
        /\ client_sessions' =
              With(client_sessions, client.key,
                   healthy \/ Get(client_sessions, client.key, FALSE))
        /\ bridged' = With(bridged, device_id, client)
        /\ bridge_call' = [tool |-> "start_bridge", device_id |-> device_id,
                           client |-> client]
        /\ UNCHANGED not_bridge_vars

\* handle_tool(name, args) for a tool that sends one request of a session
\* to WebDriverAgent; healthy: WebDriverAgent answers the client
wda_tool(name, device_id, healthy) ==
    LET client == get_wda_client(device_id, DEFAULT_WDA_PORT, None)
    IN  /\ wda_clients' = Registered(device_id, DEFAULT_WDA_PORT, None)
        /\ client_sessions' =
              With(client_sessions, client.key,
                   healthy \/ Get(client_sessions, client.key, FALSE))
        /\ bridge_call' = [tool |-> name, device_id |-> device_id,
                           client |-> client]
        /\ UNCHANGED bridged
        /\ UNCHANGED not_bridge_vars

\* handle_tool("reset_session", args): reset_wda_session, then a new
\* session on the client of get_wda_client(device_id)
bridge_reset_session(device_id, healthy) ==
    LET reset == IF device_id \in DOMAIN wda_clients
                 THEN With(client_sessions, wda_clients[device_id].key, FALSE)
                 ELSE client_sessions
        client == get_wda_client(device_id, DEFAULT_WDA_PORT, None)
    IN  /\ wda_clients' = Registered(device_id, DEFAULT_WDA_PORT, None)
        /\ client_sessions' =
              With(reset, client.key, healthy \/ Get(reset, client.key, FALSE))
        /\ bridge_call' = [tool |-> "reset_session", device_id |-> device_id,
                           client |-> client]
        /\ UNCHANGED bridged
        /\ UNCHANGED not_bridge_vars

BridgeArgs ==
    { [device_id |-> d] : d \in Devices }
      \cup { [device_id |-> d, port |-> DEFAULT_WDA_PORT + 1] : d \in Devices }
      \cup { [device_id |-> "iphone", host |-> "10.0.0.5"] }

WdaTools == {"tap", "get_ui_tree"}

InitBridge ==
    /\ hierarchy = [kind |-> "button", children |-> <<>>]
    /\ ParserInit
    /\ RenderIdle
    /\ FindIdle
    /\ ServerIdle
    /\ ManagerIdle

NextBridge ==
    \/ \E args \in BridgeArgs, healthy \in BOOLEAN : start_bridge(args, healthy)
    \/ \E name \in WdaTools, d \in Devices, healthy \in BOOLEAN :
          wda_tool(name, d, healthy)
    \/ \E d \in Devices, healthy \in BOOLEAN : bridge_reset_session(d, healthy)

SpecBridge == InitBridge /\ [][NextBridge]_vars

\* C27: once start_bridge has created a client for a device, a host and a
\* port, every later tool call for that device that talks to WebDriverAgent
\* uses that client, whatever the port.
ToolsUseBridgedClient ==
    (/\ bridge_call # NoCall
     /\ bridge_call.tool # "start_bridge"
     /\ bridge_call.device_id \in DOMAIN bridged)
       => bridge_call.client = bridged[bridge_call.device_id]

(***************************************************************************)
(* SpecPrune: Spec over hierarchies of enabled Buttons, unlabelled Others, *)
(* disabled and non-accessible nodes, all visible, deep enough for a       *)
(* removed node below the root to have a child.                            *)
(***************************************************************************)
MaxPruneNodes == 3

PruneNodeKinds == {"button", "plain", "disabled", "inaccessible"}

PruneHierarchies == UNION { Trees(PruneNodeKinds, n) : n \in 1..MaxPruneNodes }

InitPrune ==
    /\ hierarchy \in PruneHierarchies
    /\ ParserInit
    /\ RenderIdle
    /\ ServerIdle
    /\ ManagerIdle
    /\ FindIdle

SpecPrune == InitPrune /\ [][Next]_vars

\* the node passes the interactability filter, as the JSON document states
\* its properties
PassesInteractability(node) ==
    LET f == JsonFields(Kind(node.kind).json)
    IN  /\ f.enabled
        /\ f.accessible
        /\ ~(/\ f.elem_type \in {"Other", "StaticText", "Group", "Cell"}
             /\ ~Truthy(f.label)
             /\ ~Truthy(f.name))

RECURSIVE Surviving(_), SurvivingAll(_)
\* the number of nodes of the hierarchy h that pass the filter and have no
\* ancestor that fails it
Surviving(h) ==
    IF PassesInteractability(h) THEN 1 + SurvivingAll(h.children) ELSE 0

SurvivingAll(hs) ==
    IF hs = <<>> THEN 0 ELSE Surviving(Head(hs)) + SurvivingAll(Tail(hs))

\* C28: with only_interactable on a JSON document, a node that the
\* interactability filter removes takes its whole subtree with it: every
\* element of the flat list comes from a node that passes the filter and
\* whose ancestors all pass it, the list holds exactly the nodes of that
\* sort, and the removed nodes use up no index.
InteractabilityPruning ==
    \A c \in Callers :
        (/\ Returned(c)
         /\ input[c].format = "json"
         /\ input[c].only_interactable) =>
            /\ \A i \in 1..Len(result[c].flat_list) :
                  LET path == origin[c][result[c].flat_list[i]]
                  IN  /\ \A k \in 0..Len(path) :
                            PassesInteractability(
                                NodeAt(hierarchy, SubSeq(path, 1, k)))
                      /\ FlatElem(c, i).index = i - 1
            /\ Len(result[c].flat_list) = Surviving(hierarchy)

\* a JSON parse with only_interactable returned a list without the enabled,
\* accessible Button whose parent, the root's only child, the filter
\* removed: the list holds the root alone
InteractabilityPruningWitness ==
    \E c \in Callers :
        /\ Returned(c)
        /\ input[c].format = "json"
        /\ input[c].only_interactable
        /\ hierarchy.kind = "button"
        /\ Len(hierarchy.children) = 1
        /\ hierarchy.children[1].kind \in {"plain", "disabled", "inaccessible"}
        /\ Len(hierarchy.children[1].children) = 1
        /\ hierarchy.children[1].children[1].kind = "button"
        /\ Len(result[c].flat_list) = 1

\* C29: find_element_by_predicate returns an element only if the element
\* satisfies every filter key present in the predicate, a key whose value
\* is the empty string included: with text = "" it returns only an element
\* whose display text is empty.
ReturnedSatisfiesEveryKey ==
    (fpc = "returned" /\ found.outcome = "element") =>
        \A key \in DOMAIN predicate \cap TextFilterKeys :
            TextFilterSays(key, predicate[key], display_text(found.elem))
====
